---- MODULE Spec2Model ----
(***************************************************************************)
(* A model of the constrained synthesis-and-validation pipeline of the     *)
(* GTFS agent (src/app/gtfs_agent.py) and of the schema-proposal cache     *)
(* (src/app/schema_synthesis.py).                                          *)
(*                                                                         *)
(* JSON values are modelled as records that carry a "type" tag, so that    *)
(* the isinstance() tests of the code can be evaluated.  A dict is a       *)
(* record with the set of its keys ("keys") beside its values; dict.get    *)
(* is the operator Get, which yields NoneVal for an absent key.  SQL text  *)
(* is modelled by what the regular expressions of the code can see in it:  *)
(* whether "select *" occurs, the placeholders, the LIMIT clauses in text  *)
(* order, the FROM/JOIN clauses and the alias.column references.           *)
(***************************************************************************)
EXTENDS Integers, Sequences, FiniteSets, TLC

VARIABLES
    \* ---- process environment (os.getenv) ----
    maxRows,        \* MAX_RESULT_ROWS as _read_int_env returns it
    ttl,            \* SCHEMA_CACHE_SECONDS as _read_int_env returns it
    clock,          \* time.time()
    \* ---- module globals of gtfs_agent.py ----
    cache,          \* _AGENT_SCHEMA_CACHE
    cacheCreatedAt, \* _AGENT_SCHEMA_CACHE_CREATED_AT
    lock,           \* _AGENT_SCHEMA_LOCK: 0 when free, else the holder
    source,         \* _AGENT_SCHEMA_SOURCE
    lastError,      \* _AGENT_SCHEMA_LAST_ERROR
    \* ---- one getAgentSchema call per thread ----
    pc,             \* position of each thread in getAgentSchema
    now,            \* the local "now" of getAgentSchema
    local,          \* locals of _build_agent_schema_uncached
    result,         \* what the call returned (or the exception it raised)
    hist,           \* per call: the steps taken so far (observation only)
    prev,           \* observation: the last completed call
    \* ---- schema_synthesis.py: proposal cache and one request ----
    pcache,         \* _SCHEMA_CACHE: key -> (created_at, payload)
    preq,           \* the proposeSchemaFromOptions call in progress
    pprev,          \* observation: last completed proposal call per key
    \* ---- proposeQueryPlan / SQL safety ----
    plan,           \* one proposeQueryPlan or _apply_sql_safety evaluation
    \* ---- execution against the database ----
    exec,           \* one executeParameterizedQuery call
    ddl,            \* one build_schema_statements / execute_statements call
    probe           \* one validator evaluation: its input and its outcome

agentVars == <<cache, cacheCreatedAt, lock, source, lastError, pc, now, local, result, hist, prev>>
envVars == <<maxRows, ttl>>
propVars == <<pcache, preq, pprev>>
vars == <<maxRows, ttl, clock, cache, cacheCreatedAt, lock, source, lastError,
          pc, now, local, result, hist, prev,
          pcache, preq, pprev, plan, exec, ddl, probe>>
otherVars == <<exec, ddl, probe>>

-----------------------------------------------------------------------------
(* Bounds of the model *)

MaxClock == 2
MaxTtl == 1
MaxRowsBound == 1
MaxCalls == 2
MaxLimitBound == 2
MaxParams == 1
MaxLimitClauses == 2

(* Program constants *)

DefaultMaxRows == 50
NormalizeDefaultLimit == 25

\* the two concurrent callers of getAgentSchema
Threads == {1, 2}

Min2(a, b) == IF a <= b THEN a ELSE b
Max2(a, b) == IF a >= b THEN a ELSE b

RECURSIVE SeqToSet(_)
SeqToSet(s) == IF s = <<>> THEN {} ELSE {Head(s)} \cup SeqToSet(Tail(s))

RECURSIVE FlatMap(_, _)
\* the concatenation of Op(s[1]), Op(s[2]), ...
FlatMap(Op(_), s) == IF s = <<>> THEN <<>> ELSE Op(Head(s)) \o FlatMap(Op, Tail(s))

\* Python's None, and dict.get
NoneVal == [type |-> "none"]
Get(d, k) == IF k \in d.keys THEN d[k] ELSE NoneVal
IsDict(v) == v.type = "dict"
IsList(v) == v.type = "list"
IsStr(v) == v.type = "str"
IsInt(v) == v.type = "int"

StrV(s) == [type |-> "str", v |-> s]
IntV(n) == [type |-> "int", v |-> n]
True == [type |-> "bool", v |-> TRUE]
\* a list; "hashable" is FALSE when some item is a dict or a list, which
\* makes set(items) raise TypeError
\* "strs" is TRUE when every item is a str
List(items) == [type |-> "list", items |-> items, hashable |-> TRUE, strs |-> TRUE]
BadList(items) == [type |-> "list", items |-> items, hashable |-> FALSE, strs |-> FALSE]
\* a dict given by its keys alone (its values are not read)
Keys(ks) == [type |-> "dict", keys |-> ks]

-----------------------------------------------------------------------------
(* SOURCE_OF_TRUTH_SCHEMA *)

TruthTableNames == {"routes", "trips", "stop_times", "stops"}

TruthColumns ==
    [t \in TruthTableNames |->
        CASE t = "routes" ->
               <<"route_id", "agency_id", "route_short_name", "route_long_name",
                 "route_desc", "route_type", "route_url", "route_color",
                 "route_text_color", "route_sort_order">>
          [] t = "trips" ->
               <<"route_id", "service_id", "trip_id", "trip_headsign",
                 "direction_id", "direction", "block_id", "shape_id",
                 "wheelchair_accessible", "branch_letter", "boarding_type">>
          [] t = "stop_times" ->
               <<"trip_id", "arrival_time", "departure_time", "stop_id",
                 "stop_sequence", "pickup_type", "drop_off_type", "timepoint",
                 "shape_dist_traveled">>
          [] t = "stops" ->
               <<"stop_id", "stop_code", "stop_name", "stop_desc", "stop_lat",
                 "stop_lon", "stop_url", "location_type", "wheelchair_boarding",
                 "platform_code", "parent_station", "level_id", "zone_id">>]

Join(lt, lc, rt, rc, ty, al) ==
    [type |-> "dict", hashable |-> TRUE, left_table |-> lt, left_column |-> lc,
     right_table |-> rt, right_column |-> rc, jtype |-> ty, alias |-> al]

TruthJoins ==
    << Join("routes", "route_id", "trips", "route_id", "inner", "None"),
       Join("trips", "trip_id", "stop_times", "trip_id", "inner", "None"),
       Join("stops", "stop_id", "stop_times", "stop_id", "inner", "None"),
       Join("stops", "parent_station", "stops", "stop_id", "left", "parent_stop") >>

_REQUIRED_TEMPLATE_KEYS ==
    {"list_routes", "route_details", "list_stops", "stop_details",
     "stops_on_route", "routes_serving_stop", "arrivals_for_stop",
     "busiest_stops", "busiest_routes", "accessible_stops", "accessible_trips"}

-----------------------------------------------------------------------------
(* SQL text, as the regular expressions of the code see it *)

\* LIMIT clauses, in text order.  "other" is a LIMIT none of the three
\* patterns matches (LIMIT ALL, LIMIT -3, LIMIT LEAST($1, -3), ...).
Least(i, b) == [shape |-> "least", idx |-> i, bound |-> b]
Param(i) == [shape |-> "param", idx |-> i, bound |-> 0]
Const(b) == [shape |-> "const", idx |-> 0, bound |-> b]
Other == [shape |-> "other", idx |-> 0, bound |-> 0]

\* f"LIMIT {n}" and f"LIMIT LEAST(${i}, {n})": \d+ does not match "-3"
FmtConst(n) == IF n >= 0 THEN Const(n) ELSE Other
FmtLeast(i, n) == IF n >= 0 THEN Least(i, n) ELSE Other

Sql(star, ph, limits, froms, refs) ==
    [type |-> "str", blank |-> FALSE, selectStar |-> star, placeholders |-> ph,
     limits |-> limits, froms |-> froms, refs |-> refs]
BlankSql ==
    [type |-> "str", blank |-> TRUE, selectStar |-> FALSE, placeholders |-> {},
     limits |-> <<>>, froms |-> <<>>, refs |-> <<>>]
From(t, a) == [table |-> t, alias |-> a]
Ref(i, c) == [ident |-> i, column |-> c]

\* re.findall(r"\$(\d+)", sql)
Placeholders(sql) ==
    sql.placeholders \cup
    {sql.limits[i].idx : i \in {j \in DOMAIN sql.limits :
                                  sql.limits[j].shape \in {"least", "param"}}}

SetMax(S) == CHOOSE x \in S : \A y \in S : y <= x

\* re.search of one LIMIT pattern: the index of its first match, 0 if none
FirstLimit(sql, shape) ==
    IF \E i \in DOMAIN sql.limits : sql.limits[i].shape = shape
    THEN CHOOSE i \in DOMAIN sql.limits :
            /\ sql.limits[i].shape = shape
            /\ \A j \in 1..(i - 1) : sql.limits[j].shape # shape
    ELSE 0

\* re.search(r"\bselect\s+\*", lower_sql)
HasSelectStar(sql) == sql.selectStar

\* the words of the text that name a truth table (_normalize_agent_schema)
TableRefs(sql) ==
    ({sql.froms[i].table : i \in DOMAIN sql.froms}
       \cup {sql.refs[i].ident : i \in DOMAIN sql.refs}) \cap TruthTableNames

_extract_limit_bound(sql) ==
    LET least == FirstLimit(sql, "least")
        const == FirstLimit(sql, "const")
    IN  IF least # 0 THEN [found |-> TRUE, v |-> sql.limits[least].bound]
        ELSE IF const # 0 THEN [found |-> TRUE, v |-> sql.limits[const].bound]
        ELSE [found |-> FALSE, v |-> 0]

Reserved == {"on", "where", "group", "order", "limit", "left", "inner", "right", "join"}

RECURSIVE AliasMapFrom(_, _)
\* the loop of _extract_alias_map over the FROM/JOIN matches; the map is a
\* set of <<alias, table>> pairs with one pair per alias
AliasMapFrom(froms, m) ==
    IF froms = <<>> THEN m
    ELSE LET f == Head(froms)
             a0 == IF f.alias = "" THEN f.table ELSE f.alias
             a == IF a0 \in Reserved THEN f.table ELSE a0
             m1 == {p \in m : p[1] # a} \cup {<<a, f.table>>}
             m2 == IF \E p \in m1 : p[1] = f.table THEN m1
                   ELSE m1 \cup {<<f.table, f.table>>}
         IN  AliasMapFrom(Tail(froms), m2)

_extract_alias_map(sql) == AliasMapFrom(sql.froms, {})

Err(msg, at) == [msg |-> msg, at |-> at]

RefErrors(r, alias_map) ==
    LET mapped == {p \in alias_map : p[1] = r.ident}
        table_name == IF mapped # {} THEN (CHOOSE p \in mapped : TRUE)[2]
                      ELSE IF r.ident \in TruthTableNames THEN r.ident
                      ELSE ""
    IN  IF table_name = "" THEN <<>>
        ELSE IF table_name \notin TruthTableNames
             THEN <<Err("references unknown table", table_name)>>
        ELSE IF r.column \notin SeqToSet(TruthColumns[table_name])
             THEN <<Err("references unknown column", r.column)>>
        ELSE <<>>

_validate_sql_template(sql, max_limit, template_key) ==
    LET limit_bound == _extract_limit_bound(sql)
        alias_map == _extract_alias_map(sql)
        RefErr(r) == RefErrors(r, alias_map)
    IN  (IF HasSelectStar(sql)
         THEN <<Err("uses SELECT * which is not allowed", template_key)>> ELSE <<>>)
        \o (IF ~limit_bound.found
            THEN <<Err("must include a bounded LIMIT", template_key)>>
            ELSE IF limit_bound.v > max_limit
            THEN <<Err("LIMIT exceeds constraints.max_limit", template_key)>>
            ELSE <<>>)
        \o FlatMap(RefErr, sql.refs)

\* re.sub(pattern, repl, sql, count=1): the first clause of the shape
ReplaceFirst(sql, shape, clause) ==
    LET i == FirstLimit(sql, shape)
    IN  [sql EXCEPT !.limits = [@ EXCEPT ![i] = clause]]

\* re.sub(pattern, repl, sql): every clause of the shape
ReplaceAll(sql, shape, clause) ==
    [sql EXCEPT !.limits =
        [i \in DOMAIN @ |-> IF @[i].shape = shape THEN clause ELSE @[i]]]

AppendLimit(sql, clause) == [sql EXCEPT !.limits = Append(@, clause)]

_normalize_sql_limit_clause(sql, max_limit) ==
    LET least == FirstLimit(sql, "least")
        param == FirstLimit(sql, "param")
        const == FirstLimit(sql, "const")
    IN  IF least # 0 THEN
            IF sql.limits[least].bound > max_limit
            THEN ReplaceFirst(sql, "least", FmtLeast(sql.limits[least].idx, max_limit))
            ELSE sql
        ELSE IF param # 0 THEN
            ReplaceFirst(sql, "param", FmtLeast(sql.limits[param].idx, max_limit))
        ELSE IF const # 0 THEN
            IF sql.limits[const].bound <= max_limit THEN sql
            ELSE ReplaceFirst(sql, "const", FmtConst(max_limit))
        ELSE AppendLimit(sql, FmtConst(max_limit))

SetParam(params, param_idx, v) ==
    IF 0 <= param_idx /\ param_idx < Len(params)
    THEN [params EXCEPT ![param_idx + 1] = v] ELSE params

Min3(a, b, c) == Min2(a, Min2(b, c))

Unguarded(sql) == FALSE

\* "if re.search(r'\bselect\s+\*', lower_sql)" of _apply_sql_safety
SelectStarGuard(sql) == HasSelectStar(sql)

PlaceholderGuard(sql, params) ==
    Placeholders(sql) # {} /\ SetMax(Placeholders(sql)) > Len(params)

\* the value is [raised, sql, params]: raised names the QueryPlanError
_apply_sql_safety(sql, params, row_limit, max_limit) ==
    LET least == FirstLimit(sql, "least")
        param == FirstLimit(sql, "param")
        const == FirstLimit(sql, "const")
        Ret(s, p) == [raised |-> "", sql |-> s, params |-> p]
    IN  IF SelectStarGuard(sql)
        THEN [raised |-> "SELECT * is not allowed", sql |-> sql, params |-> params]
        ELSE IF PlaceholderGuard(sql, params)
        THEN [raised |-> "placeholder index is out of bounds", sql |-> sql, params |-> params]
        ELSE IF least # 0 THEN
            Ret(sql, SetParam(params, sql.limits[least].idx - 1,
                              IntV(Min3(row_limit, max_limit, sql.limits[least].bound))))
        ELSE IF param # 0 THEN
            Ret(sql, SetParam(params, sql.limits[param].idx - 1,
                              IntV(Min2(row_limit, max_limit))))
        ELSE IF const # 0 THEN
            LET current_limit == sql.limits[const].bound
                safe_limit == Min2(current_limit, max_limit)
            IN  IF safe_limit # current_limit
                THEN Ret(ReplaceAll(sql, "const", FmtConst(safe_limit)), params)
                ELSE Ret(sql, params)
        ELSE Ret(AppendLimit(sql, FmtConst(Min2(row_limit, max_limit))), params)

-----------------------------------------------------------------------------
(* The specification SpecSql: _validate_sql_template and _apply_sql_safety *)
(* applied to one SQL text drawn from a bounded set                        *)

LimitClauses ==
    {Least(i, b) : i \in 1..(MaxParams + 1), b \in 0..MaxLimitBound}
      \cup {Param(i) : i \in 1..(MaxParams + 1)}
      \cup {Const(b) : b \in 0..MaxLimitBound}
      \cup {Other}

RECURSIVE SeqsUpTo(_, _)
SeqsUpTo(S, n) ==
    IF n = 0 THEN {<<>>}
    ELSE LET shorter == SeqsUpTo(S, n - 1)
         IN  shorter \cup {Append(q, x) : q \in {r \in shorter : Len(r) = n - 1}, x \in S}

\* a value the caller supplied for a parameter, larger than every limit
UserParam == IntV(MaxLimitBound + 1)

SqlBodies ==
    { [froms |-> <<From("routes", "")>>, refs |-> <<Ref("routes", "route_id")>>],
      [froms |-> <<From("routes", "r")>>, refs |-> <<Ref("r", "invented_column")>>] }

SqlInputs ==
    { Sql(star, ph, limits, body.froms, body.refs) :
        star \in BOOLEAN, ph \in {{}, {MaxParams + 1}},
        limits \in SeqsUpTo(LimitClauses, MaxLimitClauses), body \in SqlBodies }

PlanOff == [stage |-> "off"]

OthersOff == exec = PlanOff /\ ddl = PlanOff /\ probe = PlanOff

EnvOff == maxRows = DefaultMaxRows /\ ttl = 0 /\ clock = 0

\* The row bound of the statement: its outermost LIMIT is the last one of the
\* text.  LEAST ignores an argument that is NULL.
EffectiveLimit(sql, params) ==
    IF sql.limits = <<>> THEN [bounded |-> FALSE, v |-> 0]
    ELSE LET c == sql.limits[Len(sql.limits)]
             bound == c.idx >= 1 /\ c.idx <= Len(params) /\ IsInt(params[c.idx])
         IN  CASE c.shape = "const" -> [bounded |-> TRUE, v |-> c.bound]
               [] c.shape = "least" ->
                    [bounded |-> TRUE,
                     v |-> IF bound THEN Min2(params[c.idx].v, c.bound) ELSE c.bound]
               [] c.shape = "param" ->
                    IF bound THEN [bounded |-> TRUE, v |-> params[c.idx].v]
                    ELSE [bounded |-> FALSE, v |-> 0]
               [] OTHER -> [bounded |-> FALSE, v |-> 0]

-----------------------------------------------------------------------------
(* _validate_agent_schema *)

RequiredTopKeys ==
    {"dialect", "tables", "joins", "query_templates", "display_templates", "constraints"}
ConstraintKeys == {"max_limit", "require_limit", "no_select_star"}
DisplayTemplateKeys == {"key", "title_template", "columns", "row_id_field", "formatting"}
FormattingKeys == {"time_fields", "latlon_fields", "color_fields"}
QueryTemplateKeys ==
    {"key", "description", "required_inputs", "sql_template", "params",
     "default_limit", "display_key", "safety_notes"}
RequiredInputKeys == {"name", "type", "notes"}
InputTypes == {"string", "number", "enum", "latlon"}

\* truth_tables.items(): the insertion order of the dict
TruthTableSeq == <<"routes", "trips", "stop_times", "stops">>

_canonical_join(join) ==
    <<join.left_table, join.left_column, join.right_table, join.right_column,
      join.jtype, join.alias>>

NonEmptyStr(v) == IsStr(v) /\ v.v # ""

\* tables.get(table_name, {}).get("columns")
ColumnsOf(tables, table_name) ==
    IF table_name \in tables.keys THEN tables.info[table_name] ELSE NoneVal

\* a check of the columns that lets a subset of the truth's columns pass
SubsetTableErrors(tables, table_name) ==
    LET columns == ColumnsOf(tables, table_name)
    IN  IF ~IsList(columns)
        THEN <<Err("tables.columns must be an array", table_name)>>
        ELSE (IF Len(columns.items) # Cardinality(SeqToSet(columns.items))
              THEN <<Err("tables.columns contains duplicates", table_name)>> ELSE <<>>)
          \o (IF ~(SeqToSet(columns.items) \subseteq SeqToSet(TruthColumns[table_name]))
              THEN <<Err("tables.columns must match SOURCE_OF_TRUTH_SCHEMA", table_name)>>
              ELSE <<>>)

TableErrors(tables, table_name) ==
    LET columns == ColumnsOf(tables, table_name)
    IN  IF ~IsList(columns)
        THEN <<Err("tables.columns must be an array", table_name)>>
        ELSE (IF Len(columns.items) # Cardinality(SeqToSet(columns.items))
              THEN <<Err("tables.columns contains duplicates", table_name)>> ELSE <<>>)
          \o (IF SeqToSet(columns.items) # SeqToSet(TruthColumns[table_name])
              THEN <<Err("tables.columns must match SOURCE_OF_TRUTH_SCHEMA", table_name)>>
              ELSE <<>>)

TablesErrors(agent_schema) ==
    LET tables == Get(agent_schema, "tables")
        PerTable(n) == TableErrors(tables, n)
    IN  IF ~IsDict(tables) THEN <<Err("tables must be an object", "")>>
        ELSE (IF tables.keys # TruthTableNames
              THEN <<Err("tables keys must match SOURCE_OF_TRUTH_SCHEMA tables", "")>>
              ELSE <<>>)
          \o FlatMap(PerTable, TruthTableSeq)

\* set(columns) of a list holding a dict or a list
TablesRaise(agent_schema) ==
    LET tables == Get(agent_schema, "tables")
    IN  /\ IsDict(tables)
        /\ \E n \in TruthTableNames :
              IsList(ColumnsOf(tables, n)) /\ ~ColumnsOf(tables, n).hashable

JoinsErrors(agent_schema) ==
    LET joins == Get(agent_schema, "joins")
        NotObject(j) == IF ~IsDict(j) THEN <<Err("Each join must be an object", "")>> ELSE <<>>
    IN  IF ~IsList(joins) THEN <<Err("joins must be an array", "")>>
        ELSE FlatMap(NotObject, joins.items)
          \o (IF {_canonical_join(joins.items[i]) :
                    i \in {k \in DOMAIN joins.items : IsDict(joins.items[k])}}
                 # {_canonical_join(TruthJoins[i]) : i \in DOMAIN TruthJoins}
              THEN <<Err("joins must exactly match allowed GTFS joins", "")>> ELSE <<>>)

\* candidate_join_set.add of a tuple holding a dict or a list
JoinsRaise(agent_schema) ==
    LET joins == Get(agent_schema, "joins")
    IN  /\ IsList(joins)
        /\ \E i \in DOMAIN joins.items : IsDict(joins.items[i]) /\ ~joins.items[i].hashable

PositiveInt(v) == IsInt(v) /\ v.v > 0

\* the local max_limit of _validate_agent_schema after the constraints block
ValidatorMaxLimit(agent_schema, env_max_limit) ==
    LET constraints == Get(agent_schema, "constraints")
    IN  IF IsDict(constraints) /\ PositiveInt(Get(constraints, "max_limit"))
        THEN Get(constraints, "max_limit").v ELSE env_max_limit

ConstraintsErrors(agent_schema, env_max_limit) ==
    LET constraints == Get(agent_schema, "constraints")
    IN  IF ~IsDict(constraints) THEN <<Err("constraints must be an object", "")>>
        ELSE (IF constraints.keys # ConstraintKeys
              THEN <<Err("constraints keys must match contract", "")>> ELSE <<>>)
          \o (IF ~PositiveInt(Get(constraints, "max_limit"))
              THEN <<Err("constraints.max_limit must be a positive integer", "")>> ELSE <<>>)
          \o (IF ValidatorMaxLimit(agent_schema, env_max_limit) > env_max_limit
              THEN <<Err("constraints.max_limit must not exceed MAX_RESULT_ROWS", "")>>
              ELSE <<>>)
          \o (IF Get(constraints, "require_limit") # True
              THEN <<Err("constraints.require_limit must be true", "")>> ELSE <<>>)
          \o (IF Get(constraints, "no_select_star") # True
              THEN <<Err("constraints.no_select_star must be true", "")>> ELSE <<>>)

\* display_key_set once the loop over display_templates is over
DisplayKeySet(agent_schema) ==
    LET dts == Get(agent_schema, "display_templates")
    IN  IF ~IsList(dts) THEN {}
        ELSE {Get(dts.items[i], "key").v :
                i \in {k \in DOMAIN dts.items :
                         IsDict(dts.items[k]) /\ NonEmptyStr(Get(dts.items[k], "key"))}}

DisplayTemplateErrors(items, i) ==
    LET template == items[i]
        key == Get(template, "key")
        columns == Get(template, "columns")
        formatting == Get(template, "formatting")
        BadColumn(c) ==
            IF ~IsDict(c) \/ c.keys # {"name", "label"}
            THEN <<Err("display_template.columns items must have name and label", "")>>
            ELSE <<>>
    IN  IF ~IsDict(template) THEN <<Err("Each display_template must be an object", "")>>
        ELSE (IF template.keys # DisplayTemplateKeys
              THEN <<Err("display_template keys must match contract", "")>> ELSE <<>>)
          \o (IF ~NonEmptyStr(key)
              THEN <<Err("display_template.key must be a non-empty string", "")>>
              ELSE IF \E j \in 1..(i - 1) :
                        IsDict(items[j]) /\ Get(items[j], "key") = key
              THEN <<Err("Duplicate display_template key", key.v)>> ELSE <<>>)
          \o (IF ~IsList(columns)
              THEN <<Err("display_template.columns must be an array", "")>>
              ELSE FlatMap(BadColumn, columns.items))
          \o (IF ~IsDict(formatting)
              THEN <<Err("display_template.formatting must be an object", "")>>
              ELSE IF formatting.keys # FormattingKeys
              THEN <<Err("display_template.formatting keys must match contract", "")>>
              ELSE <<>>)

RECURSIVE ErrorsFrom(_, _, _)
\* the errors of items[i], items[i+1], ... under the per-item operator Op
ErrorsFrom(Op(_, _), items, i) ==
    IF i > Len(items) THEN <<>> ELSE Op(items, i) \o ErrorsFrom(Op, items, i + 1)

DisplayTemplatesErrors(agent_schema) ==
    LET dts == Get(agent_schema, "display_templates")
    IN  IF ~IsList(dts) THEN <<Err("display_templates must be an array", "")>>
        ELSE ErrorsFrom(DisplayTemplateErrors, dts.items, 1)

\* a query template the loop does not skip with "continue"
KeyedTemplate(template) == IsDict(template) /\ NonEmptyStr(Get(template, "key"))

RequiredInputErrors(item, key) ==
    IF ~IsDict(item) THEN <<Err("required_inputs item must be an object", key)>>
    ELSE IF item.keys # RequiredInputKeys
    THEN <<Err("required_inputs item keys invalid", key)>>
    ELSE IF ~(IsStr(item.itype) /\ item.itype.v \in InputTypes)
    THEN <<Err("has invalid input type", key)>>
    ELSE <<>>

\* item.get("type") not in {...} of a dict or a list
RequiredInputRaises(item) ==
    IsDict(item) /\ item.keys = RequiredInputKeys /\ item.itype.type \in {"list", "dict"}

\* len(params) is defined for a list, a str and a dict
Sized(v) == v.type \in {"list", "str", "dict"}
PyLen(v) == IF IsList(v) THEN Len(v.items) ELSE 0

QueryTemplateErrors(template, dup, max_limit, display_key_set) ==
    LET key == Get(template, "key")
        required_inputs == Get(template, "required_inputs")
        params == Get(template, "params")
        sql_template == Get(template, "sql_template")
        default_limit == Get(template, "default_limit")
        display_key == Get(template, "display_key")
        InputErr(item) == RequiredInputErrors(item, key.v)
    IN  IF ~IsDict(template) THEN <<Err("Each query_template must be an object", "")>>
        ELSE (IF template.keys # QueryTemplateKeys
              THEN <<Err("query_template keys must match contract", "")>> ELSE <<>>)
          \o (IF ~NonEmptyStr(key)
              THEN <<Err("query_template.key must be a non-empty string", "")>>
              ELSE
                (IF dup THEN <<Err("Duplicate query_template key", key.v)>> ELSE <<>>)
             \o (IF ~IsList(required_inputs)
                 THEN <<Err("required_inputs must be an array", key.v)>>
                 ELSE FlatMap(InputErr, required_inputs.items))
             \o (IF ~(IsList(params) /\ params.strs)
                 THEN <<Err("params must be array of strings", key.v)>> ELSE <<>>)
             \o (IF ~(IsStr(sql_template) /\ ~sql_template.blank)
                 THEN <<Err("sql_template must be a non-empty string", key.v)>>
                 ELSE _validate_sql_template(sql_template, max_limit, key.v)
                   \o (IF Placeholders(sql_template) # {}
                          /\ SetMax(Placeholders(sql_template)) > PyLen(params)
                       THEN <<Err("uses placeholder index outside params", key.v)>>
                       ELSE <<>>))
             \o (IF ~PositiveInt(default_limit)
                 THEN <<Err("default_limit must be positive integer", key.v)>>
                 ELSE IF default_limit.v > max_limit
                 THEN <<Err("default_limit exceeds constraints.max_limit", key.v)>>
                 ELSE <<>>)
             \o (IF ~NonEmptyStr(display_key)
                 THEN <<Err("display_key must be a non-empty string", key.v)>>
                 ELSE IF display_key_set # {} /\ display_key.v \notin display_key_set
                 THEN <<Err("references unknown display_key", key.v)>>
                 ELSE <<>>))

QueryTemplateRaises(template) ==
    LET required_inputs == Get(template, "required_inputs")
        params == Get(template, "params")
        sql_template == Get(template, "sql_template")
    IN  /\ KeyedTemplate(template)
        /\ \/ /\ IsList(required_inputs)
              /\ \E i \in DOMAIN required_inputs.items :
                    RequiredInputRaises(required_inputs.items[i])
           \/ /\ IsStr(sql_template) /\ ~sql_template.blank
              /\ Placeholders(sql_template) # {}
              /\ ~Sized(params)

\* template_key_set once the loop over query_templates is over
TemplateKeySet(agent_schema) ==
    LET qts == Get(agent_schema, "query_templates")
    IN  IF ~IsList(qts) THEN {}
        ELSE {Get(qts.items[i], "key").v :
                i \in {k \in DOMAIN qts.items : KeyedTemplate(qts.items[k])}}

QueryTemplatesErrors(agent_schema, env_max_limit) ==
    LET qts == Get(agent_schema, "query_templates")
        max_limit == ValidatorMaxLimit(agent_schema, env_max_limit)
        dks == DisplayKeySet(agent_schema)
        PerTemplate(items, i) ==
            QueryTemplateErrors(
                items[i],
                \E j \in 1..(i - 1) :
                    KeyedTemplate(items[j]) /\ Get(items[j], "key") = Get(items[i], "key"),
                max_limit, dks)
    IN  IF ~IsList(qts) THEN <<Err("query_templates must be an array", "")>>
        ELSE ErrorsFrom(PerTemplate, qts.items, 1)

QueryTemplatesRaise(agent_schema) ==
    LET qts == Get(agent_schema, "query_templates")
    IN  IsList(qts) /\ \E i \in DOMAIN qts.items : QueryTemplateRaises(qts.items[i])

StrictErrors(agent_schema, strict_templates) ==
    IF strict_templates /\ ~(_REQUIRED_TEMPLATE_KEYS \subseteq TemplateKeySet(agent_schema))
    THEN <<Err("query_templates missing required keys", "")>> ELSE <<>>

\* the TypeError that escapes _validate_agent_schema
ValidationRaises(agent_schema) ==
    TablesRaise(agent_schema) \/ JoinsRaise(agent_schema) \/ QueryTemplatesRaise(agent_schema)

\* the value is [raised, errors]: raised when a TypeError escapes
_validate_agent_schema(agent_schema, env_max_limit, strict_templates) ==
    IF ValidationRaises(agent_schema) THEN [raised |-> TRUE, errors |-> <<>>]
    ELSE [raised |-> FALSE,
          errors |->
            (IF agent_schema.keys # RequiredTopKeys
             THEN <<Err("Top-level keys must match contract exactly", "")>> ELSE <<>>)
            \o (IF Get(agent_schema, "dialect") # StrV("postgres")
                THEN <<Err("dialect must be 'postgres'", "")>> ELSE <<>>)
            \o TablesErrors(agent_schema)
            \o JoinsErrors(agent_schema)
            \o ConstraintsErrors(agent_schema, env_max_limit)
            \o DisplayTemplatesErrors(agent_schema)
            \o QueryTemplatesErrors(agent_schema, env_max_limit)
            \o StrictErrors(agent_schema, strict_templates)]

-----------------------------------------------------------------------------
(* _normalize_agent_schema *)

\* d[k] = v on a dict
Put(d, k, v) == [[d EXCEPT ![k] = v] EXCEPT !.keys = @ \cup {k}]

\* the local max_limit of _normalize_agent_schema
NormalizerMaxLimit(agent_schema, env_max_limit) ==
    LET constraints == Get(agent_schema, "constraints")
    IN  IF IsDict(constraints)
        THEN Min2(IF PositiveInt(Get(constraints, "max_limit"))
                  THEN Get(constraints, "max_limit").v ELSE env_max_limit,
                  env_max_limit)
        ELSE env_max_limit

NormalizeTemplate(template, max_limit) ==
    IF ~IsDict(template) THEN template
    ELSE LET sql_template == Get(template, "sql_template")
             t1 == IF IsStr(sql_template) /\ ~sql_template.blank
                      /\ TableRefs(sql_template) # {}
                   THEN Put(template, "sql_template",
                            _normalize_sql_limit_clause(sql_template, max_limit))
                   ELSE template
             default_limit == Get(t1, "default_limit")
         IN  IF ~PositiveInt(default_limit)
             THEN Put(t1, "default_limit", IntV(Min2(NormalizeDefaultLimit, max_limit)))
             ELSE IF default_limit.v > max_limit
             THEN Put(t1, "default_limit", IntV(max_limit))
             ELSE t1

_normalize_agent_schema(agent_schema, env_max_limit) ==
    LET constraints == Get(agent_schema, "constraints")
        max_limit == NormalizerMaxLimit(agent_schema, env_max_limit)
        n1 == IF IsDict(constraints)
              THEN [agent_schema EXCEPT !.constraints =
                       Put(Put(Put(@, "max_limit", IntV(max_limit)),
                               "require_limit", True), "no_select_star", True)]
              ELSE agent_schema
        query_templates == Get(n1, "query_templates")
    IN  IF IsList(query_templates)
        THEN [n1 EXCEPT !.query_templates.items =
                 [i \in DOMAIN @ |-> NormalizeTemplate(@[i], max_limit)]]
        ELSE n1

-----------------------------------------------------------------------------
(* _minimal_fallback_agent_schema, and the candidates a generator may send *)

Constraints(ks, max_limit, require_limit, no_select_star) ==
    [type |-> "dict", keys |-> ks, max_limit |-> max_limit,
     require_limit |-> require_limit, no_select_star |-> no_select_star]

Tables(info) == [type |-> "dict", keys |-> DOMAIN info, info |-> info]

TruthTables == Tables([t \in TruthTableNames |-> List(TruthColumns[t])])

RequiredInput(name, itype) ==
    [type |-> "dict", keys |-> RequiredInputKeys, name |-> StrV(name), itype |-> itype]

QueryTemplate(key, required_inputs, sql_template, params, default_limit, display_key) ==
    [type |-> "dict", keys |-> QueryTemplateKeys, key |-> StrV(key),
     required_inputs |-> List(required_inputs), sql_template |-> sql_template,
     params |-> params, default_limit |-> default_limit, display_key |-> StrV(display_key)]

Column == Keys({"name", "label"})

DisplayTemplate(key, ncolumns) ==
    [type |-> "dict", keys |-> DisplayTemplateKeys, key |-> StrV(key),
     columns |-> List([i \in 1..ncolumns |-> Column]),
     formatting |-> Keys(FormattingKeys)]

AgentSchema(ks, dialect, tables, joins, query_templates, display_templates, constraints) ==
    [type |-> "dict", keys |-> ks, dialect |-> dialect, tables |-> tables,
     joins |-> joins, query_templates |-> query_templates,
     display_templates |-> display_templates, constraints |-> constraints]

Refs(ident, columns) == [i \in DOMAIN columns |-> Ref(ident, columns[i])]

FallbackTemplates(max_limit) ==
    << QueryTemplate("list_routes", <<>>,
          Sql(FALSE, {2}, <<FmtLeast(1, max_limit)>>, <<From("routes", "where")>>,
              Refs("routes", <<"route_id", "route_short_name", "route_long_name",
                               "route_type", "route_color", "route_text_color",
                               "route_sort_order">>)),
          List(<<"limit", "route_type">>), IntV(Min2(25, max_limit)), "routes_table"),
       QueryTemplate("list_stops", <<>>,
          Sql(FALSE, {2, 3, 4}, <<FmtLeast(1, max_limit)>>, <<From("stops", "where")>>,
              Refs("stops", <<"stop_id", "stop_name", "stop_lat", "stop_lon",
                              "wheelchair_boarding", "parent_station">>)),
          List(<<"limit", "lat", "lon", "radius_km">>), IntV(Min2(50, max_limit)),
          "stops_table"),
       QueryTemplate("busiest_stops", <<>>,
          Sql(FALSE, {}, <<FmtLeast(1, max_limit)>>,
              <<From("stop_times", "inner"), From("stops", "on")>>,
              Refs("stops", <<"stop_id", "stop_name">>)
                \o Refs("stop_times", <<"stop_id">>)),
          List(<<"limit">>), IntV(Min2(10, max_limit)), "busiest_stops_table"),
       QueryTemplate("busiest_routes", <<>>,
          Sql(FALSE, {}, <<FmtLeast(1, max_limit)>>,
              <<From("stop_times", "inner"), From("trips", "on"), From("routes", "on")>>,
              Refs("routes", <<"route_id", "route_short_name", "route_long_name">>)
                \o Refs("trips", <<"trip_id", "route_id">>)
                \o Refs("stop_times", <<"trip_id">>)),
          List(<<"limit">>), IntV(Min2(10, max_limit)), "busiest_routes_table"),
       QueryTemplate("stop_service_volume",
          <<RequiredInput("stop_id|stop_name", StrV("string"))>>,
          Sql(FALSE, {1, 2}, <<Const(1)>>,
              <<From("stop_times", "inner"), From("trips", "on"), From("stops", "on")>>,
              Refs("stops", <<"stop_name", "stop_id">>)
                \o Refs("stop_times", <<"trip_id", "stop_id">>)
                \o Refs("trips", <<"route_id", "trip_id">>)),
          List(<<"stop_id", "stop_name">>), IntV(1), "stop_volume_summary"),
       QueryTemplate("arrivals_for_stop",
          <<RequiredInput("stop_id", StrV("string"))>>,
          Sql(FALSE, {1}, <<FmtLeast(2, max_limit)>>,
              <<From("stop_times", "inner"), From("trips", "on"), From("routes", "on")>>,
              Refs("stop_times", <<"arrival_time", "departure_time", "stop_sequence",
                                   "trip_id", "stop_id">>)
                \o Refs("routes", <<"route_short_name", "route_id">>)
                \o Refs("trips", <<"trip_headsign", "trip_id", "route_id">>)),
          List(<<"stop_id", "limit">>), IntV(Min2(30, max_limit)), "arrivals_table") >>

FallbackDisplayTemplates ==
    << DisplayTemplate("routes_table", 4), DisplayTemplate("stops_table", 5),
       DisplayTemplate("busiest_stops_table", 3), DisplayTemplate("busiest_routes_table", 4),
       DisplayTemplate("stop_volume_summary", 4), DisplayTemplate("arrivals_table", 5) >>

_minimal_fallback_agent_schema(max_limit) ==
    AgentSchema(RequiredTopKeys, StrV("postgres"), TruthTables, List(TruthJoins),
                List(FallbackTemplates(max_limit)), List(FallbackDisplayTemplates),
                Constraints(ConstraintKeys, IntV(max_limit), True, True))

\* a schema in the shape of the contract: every required template, each a
\* bounded query over routes
SampleTemplate(key) ==
    QueryTemplate(key, <<>>,
        Sql(FALSE, {}, <<Least(1, DefaultMaxRows)>>, <<From("routes", "limit")>>,
            Refs("routes", <<"route_id">>)),
        List(<<"limit">>), IntV(10), "generic_table")

RequiredKeySeq ==
    <<"list_routes", "route_details", "list_stops", "stop_details",
      "stops_on_route", "routes_serving_stop", "arrivals_for_stop",
      "busiest_stops", "busiest_routes", "accessible_stops", "accessible_trips">>

SampleTemplates == [i \in DOMAIN RequiredKeySeq |-> SampleTemplate(RequiredKeySeq[i])]

SampleSchema ==
    AgentSchema(RequiredTopKeys, StrV("postgres"), TruthTables, List(TruthJoins),
                List(SampleTemplates), List(<<DisplayTemplate("generic_table", 1)>>),
                Constraints(ConstraintKeys, IntV(DefaultMaxRows), True, True))

\* the sample with a ceiling of 500, a first template without LIMIT and
\* without default_limit: valid once normalized
UnclampedSchema ==
    [SampleSchema EXCEPT
        !.constraints.max_limit = IntV(500),
        !.query_templates.items[1].sql_template.limits = <<>>,
        !.query_templates.items[1].default_limit = NoneVal]

\* the sample with a column the truth schema does not have
HallucinatedSchema ==
    [SampleSchema EXCEPT
        !.tables.info["routes"] = List(Append(TruthColumns["routes"], "invented_column"))]

\* the sample whose routes columns hold a JSON object
UnhashableSchema ==
    [SampleSchema EXCEPT !.tables.info["routes"] = BadList(<<"route_id">>)]

\* the JSON object {}
EmptyObject ==
    AgentSchema({}, NoneVal, NoneVal, NoneVal, NoneVal, NoneVal, NoneVal)

CandidateNames == {"unclamped", "hallucinated", "unhashable", "fallback_like"}

Candidate(name) ==
    CASE name = "unclamped" -> UnclampedSchema
      [] name = "hallucinated" -> HallucinatedSchema
      [] name = "unhashable" -> UnhashableSchema
      [] OTHER -> _minimal_fallback_agent_schema(DefaultMaxRows)

\* what the generator may answer: a failed call, text that is no JSON
\* object, or a JSON object
Responses ==
    {[kind |-> "call_failed", name |-> "http_401", reason |-> "HTTP 401"],
     [kind |-> "text", name |-> "not_json", reason |-> ""]}
      \cup {[kind |-> "object", name |-> n, reason |-> ""] : n \in CandidateNames}

ResponseNames == {r.name : r \in Responses}
ResponseNamed(name) == CHOOSE r \in Responses : r.name = name

\* _call_gemini_json followed by _extract_json_object: the dict, or the text
\* of the AgentSchemaError
proposeAgentSchemaFromTruth(resp) ==
    CASE resp.kind = "call_failed" -> [ok |-> FALSE, error |-> resp.reason, value |-> NoneVal]
      [] resp.kind = "text" ->
            [ok |-> FALSE, error |-> "Gemini output did not contain a JSON object",
             value |-> NoneVal]
      [] OTHER -> [ok |-> TRUE, error |-> "", value |-> Candidate(resp.name)]

_propose_repaired_agent_schema(resp) == proposeAgentSchemaFromTruth(resp)

\* lines 291-311: the first request, normalization and strict validation
FirstCandidate(resp, max_rows) ==
    LET got == proposeAgentSchemaFromTruth(resp)
        raw_schema == _normalize_agent_schema(got.value, max_rows)
        checked == _validate_agent_schema(raw_schema, max_rows, TRUE)
    IN  IF ~got.ok
        THEN [ok |-> FALSE, error |-> got.error, raised |-> FALSE, errors |-> <<>>,
              schema |-> NoneVal]
        ELSE [ok |-> TRUE, error |-> "", raised |-> checked.raised,
              errors |-> checked.errors, schema |-> raw_schema]

\* lines 317-329: the repair request, normalization and strict validation
RepairCandidate(resp, max_rows) ==
    LET got == _propose_repaired_agent_schema(resp)
        repair_schema ==
            _normalize_agent_schema(IF got.ok THEN got.value ELSE EmptyObject, max_rows)
        checked == _validate_agent_schema(repair_schema, max_rows, TRUE)
    IN  [ok |-> got.ok, error |-> got.error, raised |-> checked.raised,
         errors |-> checked.errors, schema |-> repair_schema]

\* lines 298-307 and 346-356: the fallback and its non-strict validation
FallbackCandidate(max_rows) ==
    LET fallback == _minimal_fallback_agent_schema(max_rows)
    IN  [schema |-> fallback,
         errors |-> _validate_agent_schema(fallback, max_rows, FALSE).errors]

EnvMaxRows == ((0 - 1)..MaxRowsBound) \cup {DefaultMaxRows}

\* the three of them, tabulated for the environments of the model
FirstCandidates ==
    [m \in EnvMaxRows |-> [n \in ResponseNames |-> FirstCandidate(ResponseNamed(n), m)]]
RepairCandidates ==
    [m \in EnvMaxRows |-> [n \in ResponseNames |-> RepairCandidate(ResponseNamed(n), m)]]
FallbackCandidates == [m \in EnvMaxRows |-> FallbackCandidate(m)]

\* The state holds an artifact by the document it is: the normalized JSON
\* object of a response, or the fallback. Artifact gives the document.
Normalized(name) == [doc |-> "normalized", name |-> name]
Fallback == [doc |-> "fallback", name |-> ""]
Artifact(ref, max_rows) ==
    IF ref = NoneVal THEN NoneVal
    ELSE IF ref.doc = "fallback" THEN FallbackCandidates[max_rows].schema
    ELSE FirstCandidates[max_rows][ref.name].schema

-----------------------------------------------------------------------------
(* getAgentSchema, _build_agent_schema_uncached, clearAgentSchemaCache *)

NoError == [text |-> "None", reason |-> "", details |-> <<>>]
NoResult == [kind |-> "none", exc |-> "", value |-> NoneVal]
Returned(v) == [kind |-> "returned", exc |-> "", value |-> v]
Raised(e) == [kind |-> "raised", exc |-> e, value |-> NoneVal]

LocalInit == [errors |-> <<>>, schema |-> NoneVal]
\* per call: generator requests made, steps taken, the responses received,
\* how each candidate fared, the path that produced the artifact
HistInit == [calls |-> 0, steps |-> <<>>, path |-> "", first |-> "", repair |-> "",
             firstResp |-> "", repairResp |-> "", entry |-> NoneVal, entryAt |-> 0]
\* across calls: calls completed, what the last cache write stored, when and
\* by whom, and the last generated or repaired artifact returned
NoPrev ==
    [calls |-> 0, cached |-> NoneVal, at |-> 0, writer |-> 0, good |-> NoneVal,
     cleared |-> FALSE, building |-> {}]

AgentInit ==
    /\ cache = NoneVal /\ cacheCreatedAt = 0 /\ lock = 0
    /\ source = "unknown" /\ lastError = NoError
    /\ pc = [t \in Threads |-> "idle"]
    /\ now = [t \in Threads |-> 0]
    /\ local = [t \in Threads |-> LocalInit]
    /\ result = [t \in Threads |-> NoResult]
    /\ hist = [t \in Threads |-> HistInit]
    /\ prev = NoPrev

PropOff ==
    /\ pcache = <<>> /\ preq = [pc |-> "off"] /\ pprev = <<>>

\* errors[:3]
Take(s, n) == SubSeq(s, 1, Min2(n, Len(s)))

CacheIgnored(t) == FALSE

\* the cache test of getAgentSchema
CacheUsable(t) ==
    /\ cache # NoneVal
    /\ ttl > 0
    /\ now[t] - cacheCreatedAt <= ttl

StillHeld(t) == t

\* the lock once the "with" block of a cache check or a cache write is left
Released(t) == 0

\* ttl_seconds and now are read before the lock is taken
Start(t) ==
    /\ pc[t] = "idle"
    /\ pc' = [pc EXCEPT ![t] = "check"]
    /\ now' = [now EXCEPT ![t] = clock]
    /\ UNCHANGED <<envVars, clock, cache, cacheCreatedAt, lock, source, lastError,
                   local, result, hist, prev, propVars, plan, otherVars>>

AcquireForCheck(t) ==
    /\ pc[t] = "check" /\ lock = 0
    /\ lock' = t
    /\ pc' = [pc EXCEPT ![t] = "check_locked"]
    /\ UNCHANGED <<envVars, clock, cache, cacheCreatedAt, source, lastError,
                   now, local, result, hist, prev, propVars, plan, otherVars>>

CheckCache(t) ==
    /\ pc[t] = "check_locked" /\ lock = t
    /\ IF CacheUsable(t)
       THEN /\ result' = [result EXCEPT ![t] = Returned(cache)]
            /\ hist' = [hist EXCEPT ![t].path = "cache", ![t].entry = prev.cached,
                                    ![t].entryAt = prev.at]
            /\ pc' = [pc EXCEPT ![t] = "done"]
       ELSE /\ pc' = [pc EXCEPT ![t] = "build"]
            /\ hist' = [hist EXCEPT ![t].entry = prev.cached, ![t].entryAt = prev.at]
            /\ result' = result
    /\ lock' = Released(t)
    /\ UNCHANGED <<envVars, clock, cache, cacheCreatedAt, source, lastError,
                   now, local, prev, propVars, plan, otherVars>>

\* the first generator request of _build_agent_schema_uncached is sent
GenRequest(t) ==
    /\ pc[t] = "build"
    /\ pc' = [pc EXCEPT ![t] = "gen1_wait"]
    /\ hist' = [hist EXCEPT ![t].calls = @ + 1, ![t].steps = Append(@, "generate")]
    /\ UNCHANGED <<envVars, clock, cache, cacheCreatedAt, lock, source, lastError,
                   now, local, result, prev, propVars, plan, otherVars>>

NoErrorRecorded(reason) == NoError

\* the text of _AGENT_SCHEMA_LAST_ERROR on the three fallback paths
GenerationFailedError(reason) ==
    [text |-> "Gemini schema generation failed", reason |-> reason, details |-> <<>>]
ValidationFailedError(errors, repair_error_text) ==
    IF repair_error_text # ""
    THEN [text |-> "Gemini schema failed validation; repair failed",
          reason |-> repair_error_text, details |-> Take(errors, 3)]
    ELSE [text |-> "Gemini schema failed validation", reason |-> "",
          details |-> Take(errors, 3)]

\* "fallback = _minimal_fallback_agent_schema(); fallback_errors = ...": the
\* fallback is returned, or AgentSchemaError is raised
UseFallback(t, why) ==
    LET fb == FallbackCandidates[maxRows]
    IN  /\ source' = "fallback"
        /\ lastError' = why
        /\ IF fb.errors # <<>>
           THEN /\ result' = [result EXCEPT ![t] =
                                 Raised("AgentSchemaError: Failed to build fallback agent schema")]
                /\ pc' = [pc EXCEPT ![t] = "done"]
                /\ local' = local
           ELSE /\ local' = [local EXCEPT ![t].schema = Fallback]
                /\ pc' = [pc EXCEPT ![t] = "write"]
                /\ result' = result

\* a TypeError leaves _validate_agent_schema and getAgentSchema
EscapeTypeError(t) ==
    /\ result' = [result EXCEPT ![t] = Raised("TypeError")]
    /\ pc' = [pc EXCEPT ![t] = "done"]
    /\ UNCHANGED <<source, lastError, local>>

ThroughRepair == "repair"

\* where the build goes when the first generator request raised
AfterFirstFailure == "fallback"

\* the first request returns: lines 291-315
GenRespond(t) ==
    /\ pc[t] = "gen1_wait"
    /\ \E resp \in Responses :
         LET first == FirstCandidates[maxRows][resp.name]
         IN  IF ~first.ok THEN
                 IF AfterFirstFailure = "fallback"
                 THEN /\ UseFallback(t, GenerationFailedError(first.error))
                      /\ hist' = [hist EXCEPT ![t].first = "failed",
                                              ![t].firstResp = resp.name,
                                              ![t].path = "fallback",
                                              ![t].steps = Append(@, "fallback")]
                 ELSE /\ pc' = [pc EXCEPT ![t] = "repair"]
                      /\ hist' = [hist EXCEPT ![t].first = "failed",
                                              ![t].firstResp = resp.name]
                      /\ UNCHANGED <<source, lastError, local, result>>
             ELSE IF first.raised THEN
                 /\ EscapeTypeError(t)
                 /\ hist' = [hist EXCEPT ![t].first = "raised",
                                         ![t].firstResp = resp.name,
                                         ![t].steps = Append(@, "validate")]
             ELSE IF first.errors = <<>> THEN
                 /\ source' = "gemini"
                 /\ lastError' = NoError
                 /\ local' = [local EXCEPT ![t].schema = Normalized(resp.name)]
                 /\ hist' = [hist EXCEPT ![t].first = "valid", ![t].path = "generated",
                                         ![t].firstResp = resp.name,
                                         ![t].steps = Append(@, "validate")]
                 /\ pc' = [pc EXCEPT ![t] = "write"]
                 /\ result' = result
             ELSE
                 /\ local' = [local EXCEPT ![t].errors = first.errors]
                 /\ hist' = [hist EXCEPT ![t].first = "invalid",
                                         ![t].firstResp = resp.name,
                                         ![t].steps = Append(@, "validate")]
                 /\ pc' = [pc EXCEPT ![t] = "repair"]
                 /\ UNCHANGED <<source, lastError, result>>
    /\ UNCHANGED <<envVars, clock, cache, cacheCreatedAt, lock, now, prev,
                   propVars, plan, otherVars>>

\* the repair request is sent: lines 318-323
RepairRequest(t) ==
    /\ pc[t] = "repair"
    /\ pc' = [pc EXCEPT ![t] = "gen2_wait"]
    /\ hist' = [hist EXCEPT ![t].calls = @ + 1, ![t].steps = Append(@, "repair")]
    /\ UNCHANGED <<envVars, clock, cache, cacheCreatedAt, lock, source, lastError,
                   now, local, result, prev, propVars, plan, otherVars>>

\* the artifact returned when the repaired candidate passes validation
AcceptedRepair(repair_schema, fallback) == repair_schema

\* the repair request returns: lines 324-356
RepairRespond(t) ==
    /\ pc[t] = "gen2_wait"
    /\ \E resp \in Responses :
         LET repair == RepairCandidates[maxRows][resp.name]
         IN  IF repair.raised THEN
                 /\ EscapeTypeError(t)
                 /\ hist' = [hist EXCEPT ![t].repair = "raised",
                                         ![t].repairResp = resp.name,
                                         ![t].steps = Append(@, "validate")]
             ELSE IF repair.errors = <<>> THEN
                 /\ source' = "gemini_repair"
                 /\ lastError' = NoError
                 /\ local' = [local EXCEPT ![t].schema =
                                 AcceptedRepair(Normalized(resp.name), Fallback)]
                 /\ hist' = [hist EXCEPT ![t].repair = "valid", ![t].path = "repaired",
                                         ![t].repairResp = resp.name,
                                         ![t].steps = Append(@, "validate")]
                 /\ pc' = [pc EXCEPT ![t] = "write"]
                 /\ result' = result
             ELSE
                 /\ hist' = [hist EXCEPT
                               ![t].repair = IF repair.ok THEN "invalid" ELSE "failed",
                               ![t].repairResp = resp.name,
                               ![t].path = "fallback",
                               ![t].steps = @ \o <<"validate", "fallback">>]
                 /\ UseFallback(t, ValidationFailedError(local[t].errors, repair.error))
    /\ UNCHANGED <<envVars, clock, cache, cacheCreatedAt, lock, now, prev,
                   propVars, plan, otherVars>>

AcquireForWrite(t) ==
    /\ pc[t] = "write" /\ lock = 0
    /\ lock' = t
    /\ pc' = [pc EXCEPT ![t] = "write_locked"]
    /\ UNCHANGED <<envVars, clock, cache, cacheCreatedAt, source, lastError, now, local,
                   result, hist, prev, propVars, plan, otherVars>>

\* a cache write that stores a candidate that was not validated
StoresUnvalidated(t) == Normalized("hallucinated")

\* the artifact a build that reached the cache write stores
Stored(t) == local[t].schema

\* lines 259-263: the cache is written under the lock and the copy returned
WriteCache(t) ==
    /\ pc[t] = "write_locked" /\ lock = t
    /\ cache' = Stored(t)
    /\ cacheCreatedAt' = clock
    /\ lock' = Released(t)
    /\ result' = [result EXCEPT ![t] = Returned(local[t].schema)]
    /\ pc' = [pc EXCEPT ![t] = "done"]
    /\ prev' = [prev EXCEPT !.cached = Stored(t), !.at = clock, !.writer = t,
                            !.good = IF hist[t].path \in {"generated", "repaired"}
                                     THEN local[t].schema ELSE @]
    /\ UNCHANGED <<envVars, clock, source, lastError, now, local, hist, propVars, plan, otherVars>>

\* the calls that are past their cache check and have not yet written
Building == {t \in Threads : pc[t] \in {"build", "gen1_wait", "repair", "gen2_wait", "write"}}

\* clearAgentSchemaCache
clearAgentSchemaCache ==
    /\ lock = 0
    /\ cache' = NoneVal
    /\ cacheCreatedAt' = 0
    /\ prev' = [prev EXCEPT !.cached = NoneVal, !.at = 0, !.writer = 0,
                            !.cleared = TRUE, !.building = Building]
    /\ UNCHANGED <<envVars, clock, lock, source, lastError, pc, now, local, result, hist,
                   propVars, plan, otherVars>>

\* time passes
Tick ==
    /\ clock < MaxClock
    /\ clock' = clock + 1
    /\ UNCHANGED <<envVars, agentVars, propVars, plan, otherVars>>

\* getAgentSchemaStatus: a read of the module globals
getAgentSchemaStatus ==
    [source |-> source,
     last_error |-> IF lastError = NoError THEN NoneVal ELSE lastError,
     cache_populated |-> cache # NoneVal]

Call(t) ==
    \/ Start(t) \/ AcquireForCheck(t) \/ CheckCache(t)
    \/ GenRequest(t) \/ GenRespond(t) \/ RepairRequest(t) \/ RepairRespond(t)
    \/ AcquireForWrite(t) \/ WriteCache(t)

\* the caller is back from getAgentSchema and may call it again
Reset(t) ==
    /\ pc[t] = "done"
    /\ prev.calls + 1 < MaxCalls
    /\ pc' = [pc EXCEPT ![t] = "idle"]
    /\ local' = [local EXCEPT ![t] = LocalInit]
    /\ result' = [result EXCEPT ![t] = NoResult]
    /\ hist' = [hist EXCEPT ![t] = HistInit]
    /\ prev' = [prev EXCEPT !.calls = @ + 1, !.building = @ \ {t}]
    /\ UNCHANGED <<envVars, clock, cache, cacheCreatedAt, lock, source, lastError, now,
                   propVars, plan, otherVars>>

EnvInit ==
    /\ maxRows \in EnvMaxRows
    /\ ttl \in 0..MaxTtl
    /\ clock = 0

Init ==
    /\ EnvInit /\ AgentInit /\ PropOff /\ plan = PlanOff /\ OthersOff

Next ==
    \/ \E t \in Threads : Call(t)
    \/ clearAgentSchemaCache
    \/ Tick

\* two threads, one getAgentSchema call each
Spec == Init /\ [][Next]_vars

-----------------------------------------------------------------------------
(* schema_synthesis.py: proposeSchemaFromOptions and its cache.  A table   *)
(* of a proposal is its name and its body: "option" when columns, indexes  *)
(* and foreign keys are those of the catalog table, "lax" when they are    *)
(* but booleans are written as the strings "true"/"false", "altered" when  *)
(* a column was added.                                                     *)

SchemaOptionsVersion == "2026-02-24.v1"
Versions == {SchemaOptionsVersion, "v0"}

\* option id -> table name of _SCHEMA_OPTIONS
OptionTables ==
    [o \in {"users_core", "datasets_core", "analysis_runs_core", "query_logs_core"} |->
        CASE o = "users_core" -> "users"
          [] o = "datasets_core" -> "datasets"
          [] o = "analysis_runs_core" -> "analysis_runs"
          [] OTHER -> "query_logs"]

_TOP_LEVEL_KEYS == {"schema_name", "dialect", "tables", "selected_options", "rationale"}

_TABLE_KEYS == {"name", "columns", "indexes", "foreign_keys"}
_VALID_ON_DELETE == {"restrict", "cascade", "set null"}
\* _VALID_POSTGRES_TYPES, and the two patterns, on the type texts of the model
_VALID_POSTGRES_TYPES ==
    {"uuid", "text", "int", "integer", "bigint", "boolean", "timestamptz", "timestamp",
     "timestamp with time zone", "date", "jsonb", "numeric", "varchar"}

Col(name, type, nullable, primary_key, unique, default) ==
    [name |-> name, type |-> type, nullable |-> nullable, primary_key |-> primary_key,
     unique |-> unique, default |-> default]
Index(name, columns, unique) == [name |-> name, columns |-> columns, unique |-> unique]
Fk(column, ref_table, ref_column, on_delete) ==
    [column |-> column, ref_table |-> ref_table, ref_column |-> ref_column,
     on_delete |-> on_delete]

\* a table object: keys are the keys of the JSON object; lax says that a
\* boolean is written as the string "true" or "false"
OptionTable(name, columns, indexes, foreign_keys) ==
    [name |-> name, keys |-> _TABLE_KEYS, lax |-> FALSE, columns |-> columns,
     indexes |-> indexes, foreign_keys |-> foreign_keys]

\* the "table" of each option of _SCHEMA_OPTIONS, by its name
CatalogTable(name) ==
    CASE name = "users" ->
           OptionTable("users",
              <<
                Col("id", "uuid", FALSE, TRUE, TRUE, StrV("gen_random_uuid()")),
                Col("email", "text", FALSE, FALSE, TRUE, NoneVal),
                Col("full_name", "text", TRUE, FALSE, FALSE, NoneVal),
                Col("created_at", "timestamptz", FALSE, FALSE, FALSE, StrV("now()")) >>,
              <<
                Index("users_email_idx", <<"email">>, TRUE),
                Index("users_created_at_idx", <<"created_at">>, FALSE) >>,
              <<>>)
      [] name = "datasets" ->
           OptionTable("datasets",
              <<
                Col("id", "uuid", FALSE, TRUE, TRUE, StrV("gen_random_uuid()")),
                Col("owner_user_id", "uuid", FALSE, FALSE, FALSE, NoneVal),
                Col("name", "text", FALSE, FALSE, FALSE, NoneVal),
                Col("source", "text", TRUE, FALSE, FALSE, NoneVal),
                Col("created_at", "timestamptz", FALSE, FALSE, FALSE, StrV("now()")) >>,
              <<
                Index("datasets_owner_idx", <<"owner_user_id">>, FALSE),
                Index("datasets_name_idx", <<"name">>, FALSE) >>,
              <<
                Fk("owner_user_id", "users", "id", "cascade") >>)
      [] name = "analysis_runs" ->
           OptionTable("analysis_runs",
              <<
                Col("id", "uuid", FALSE, TRUE, TRUE, StrV("gen_random_uuid()")),
                Col("dataset_id", "uuid", FALSE, FALSE, FALSE, NoneVal),
                Col("status", "text", FALSE, FALSE, FALSE, StrV("'pending'")),
                Col("input_payload", "jsonb", TRUE, FALSE, FALSE, NoneVal),
                Col("started_at", "timestamptz", FALSE, FALSE, FALSE, StrV("now()")) >>,
              <<
                Index("analysis_runs_dataset_idx", <<"dataset_id">>, FALSE),
                Index("analysis_runs_status_idx", <<"status">>, FALSE) >>,
              <<
                Fk("dataset_id", "datasets", "id", "cascade") >>)
      [] name = "query_logs" ->
           OptionTable("query_logs",
              <<
                Col("id", "bigint", FALSE, TRUE, TRUE, NoneVal),
                Col("user_id", "uuid", TRUE, FALSE, FALSE, NoneVal),
                Col("prompt_text", "text", FALSE, FALSE, FALSE, NoneVal),
                Col("generated_sql", "text", TRUE, FALSE, FALSE, NoneVal),
                Col("created_at", "timestamptz", FALSE, FALSE, FALSE, StrV("now()")) >>,
              <<
                Index("query_logs_created_at_idx", <<"created_at">>, FALSE) >>,
              <<
                Fk("user_id", "users", "id", "set null") >>)
      [] OTHER -> OptionTable(name, <<>>, <<>>, <<>>)

ButLast(s) == SubSeq(s, 1, Len(s) - 1)
ReplaceLast(s, item) == IF s = <<>> THEN s ELSE Append(ButLast(s), item)

\* the tables a proposal may carry under the name of a catalog table
TableBodies ==
    {"option", "lax", "altered", "omitted", "invented", "repeated", "repeated_index",
     "spaced_default", "extra_key"}

Table(name, body) ==
    LET t == CatalogTable(name)
    IN  CASE body = "lax" -> [t EXCEPT !.lax = TRUE]
          [] body = "altered" /\ t.columns # <<>> ->
                [t EXCEPT !.columns[1].type = "bigint", !.columns[1].default = NoneVal]
          [] body = "omitted" -> [t EXCEPT !.columns = ButLast(@)]
          [] body = "invented" ->
                [t EXCEPT !.columns = Append(@, Col("notes", "text", TRUE, FALSE, FALSE,
                                                    NoneVal))]
          [] body = "repeated" /\ t.columns # <<>> ->
                [t EXCEPT !.columns = ReplaceLast(@, @[1])]
          [] body = "repeated_index" /\ t.indexes # <<>> ->
                [t EXCEPT !.indexes = ReplaceLast(@, @[1])]
          [] body = "spaced_default" /\ t.columns # <<>> ->
                [t EXCEPT !.columns[Len(t.columns)].default = StrV(" now() ")]
          [] body = "extra_key" -> [t EXCEPT !.keys = @ \cup {"comment"}]
          [] OTHER -> t

Payload(ks, selected_options, tables) ==
    [type |-> "dict", keys |-> ks, schema_name |-> "app", dialect |-> "postgres",
     tables |-> tables, selected_options |-> selected_options]

Requests == {"users table", "Users  Table", "run history"}

\* " ".join(user_request.split()).strip().lower()
NormalizeRequest(user_request) ==
    IF user_request = "Users  Table" THEN "users table" ELSE user_request

\* sha256 is taken as injective: the key is the text that is hashed
_build_cache_key(user_request, version) == <<NormalizeRequest(user_request), version>>

CacheKeys == {_build_cache_key(r, v) : r \in Requests, v \in Versions}

\* _validate_contract_shape: the exact keys of the payload and of its tables
_validate_contract_shape(payload) ==
    /\ payload.keys = _TOP_LEVEL_KEYS
    /\ \A i \in DOMAIN payload.tables : payload.tables[i].keys = _TABLE_KEYS

\* ProposedSchema.model_validate: the model, booleans coerced
_coerce_proposed_schema(payload) ==
    [type |-> "model", schema_name |-> payload.schema_name, dialect |-> payload.dialect,
     tables |-> [i \in DOMAIN payload.tables |-> [payload.tables[i] EXCEPT !.lax = FALSE]],
     selected_options |-> payload.selected_options]

\* model_dump
proposedSchemaToDict(schema) ==
    Payload(_TOP_LEVEL_KEYS, schema.selected_options, schema.tables)

_validate_types(proposed_schema) ==
    \A i \in DOMAIN proposed_schema.tables :
        LET table == proposed_schema.tables[i]
        IN  /\ \A c \in DOMAIN table.columns :
                  table.columns[c].type \in _VALID_POSTGRES_TYPES
            /\ \A f \in DOMAIN table.foreign_keys :
                  table.foreign_keys[f].on_delete \in _VALID_ON_DELETE

\* str(value).strip()
_normalize_default(value) ==
    IF value = NoneVal THEN NoneVal
    ELSE IF value = StrV(" now() ") THEN StrV("now()") ELSE value

\* the items of a list as a dict keyed by one field: of two items with the
\* same key the later one is kept
Keyed(items, key) ==
    [k \in {items[i][key] : i \in DOMAIN items} |->
        items[CHOOSE i \in DOMAIN items :
                 /\ items[i][key] = k
                 /\ \A j \in DOMAIN items : items[j][key] = k => j <= i]]

_validate_table_exact_match(proposed_table, expected_table) ==
    LET expected_columns == Keyed(expected_table.columns, "name")
        expected_indexes == Keyed(expected_table.indexes, "name")
        expected_foreign_keys == Keyed(expected_table.foreign_keys, "column")
    IN  /\ Len(proposed_table.columns) = Cardinality(DOMAIN expected_columns)
        /\ \A i \in DOMAIN proposed_table.columns :
              LET column == proposed_table.columns[i]
              IN  /\ column.name \in DOMAIN expected_columns
                  /\ column.type = expected_columns[column.name].type
                  /\ column.nullable = expected_columns[column.name].nullable
                  /\ column.primary_key = expected_columns[column.name].primary_key
                  /\ column.unique = expected_columns[column.name].unique
                  /\ _normalize_default(column.default)
                        = _normalize_default(expected_columns[column.name].default)
        /\ Len(proposed_table.indexes) = Cardinality(DOMAIN expected_indexes)
        /\ \A i \in DOMAIN proposed_table.indexes :
              LET index == proposed_table.indexes[i]
              IN  /\ index.name \in DOMAIN expected_indexes
                  /\ index.columns = expected_indexes[index.name].columns
                  /\ index.unique = expected_indexes[index.name].unique
        /\ Len(proposed_table.foreign_keys) = Cardinality(DOMAIN expected_foreign_keys)
        /\ \A i \in DOMAIN proposed_table.foreign_keys :
              LET foreign_key == proposed_table.foreign_keys[i]
              IN  /\ foreign_key.column \in DOMAIN expected_foreign_keys
                  /\ foreign_key = expected_foreign_keys[foreign_key.column]

_validate_against_schema_options(proposed_schema) ==
    LET selected == proposed_schema.selected_options
        tables == proposed_schema.tables
        expected_names == {OptionTables[selected[i]] : i \in DOMAIN selected}
        proposed_names == {tables[i].name : i \in DOMAIN tables}
    IN  /\ selected # <<>>
        /\ Cardinality(SeqToSet(selected)) = Len(selected)
        /\ \A i \in DOMAIN selected : selected[i] \in DOMAIN OptionTables
        /\ Cardinality(proposed_names) = Len(tables)
        /\ expected_names = proposed_names
        /\ \A i \in DOMAIN tables :
              _validate_table_exact_match(tables[i], CatalogTable(tables[i].name))

\* [ok, schema]: ok is FALSE when SchemaValidationError is raised
validateProposedSchema(payload) ==
    IF /\ _validate_contract_shape(payload)
       /\ _validate_types(_coerce_proposed_schema(payload))
       /\ _validate_against_schema_options(_coerce_proposed_schema(payload))
    THEN [ok |-> TRUE, schema |-> _coerce_proposed_schema(payload)]
    ELSE [ok |-> FALSE, schema |-> NoneVal]

\* what _call_gemini_schema may give: SchemaSynthesisError, text without a
\* JSON object, or the text of a JSON object
ProposalResponses ==
    {[kind |-> "call_failed", payload |-> NoneVal],
     [kind |-> "text", payload |-> NoneVal],
     [kind |-> "object",
      payload |-> Payload(_TOP_LEVEL_KEYS, <<"users_core">>, <<Table("users", "option")>>)],
     [kind |-> "object",
      payload |-> Payload(_TOP_LEVEL_KEYS, <<"users_core", "datasets_core">>,
                          <<Table("users", "lax"), Table("datasets", "option")>>)],
     [kind |-> "object",
      payload |-> Payload(_TOP_LEVEL_KEYS, <<"users_core">>, <<Table("users", "altered")>>)],
     [kind |-> "object",
      payload |-> Payload(_TOP_LEVEL_KEYS \ {"rationale"}, <<"users_core">>,
                          <<Table("users", "option")>>)]}

_parse_and_validate(resp) ==
    IF resp.kind = "text" THEN [ok |-> FALSE, schema |-> NoneVal]
    ELSE validateProposedSchema(resp.payload)

\* max(0, int(SCHEMA_CACHE_SECONDS))
_get_cache_ttl_seconds == Max2(0, ttl)

NoEntry == [present |-> FALSE, created_at |-> 0, payload |-> NoneVal]
NoSeen == [present |-> FALSE, at |-> 0, schema |-> NoneVal]
ProposalIdle ==
    [pc |-> "idle", key |-> <<>>, calls |-> 0, result |-> NoResult, entry |-> NoSeen,
     now |-> 0, done |-> 0, before |-> <<>>]

PropInit ==
    /\ pcache = [k \in CacheKeys |-> NoEntry]
    /\ pprev = [k \in CacheKeys |-> NoSeen]
    /\ preq = ProposalIdle

\* whether _get_cached_schema serves the entry of the key
ProposalUsable(cached, at) ==
    /\ _get_cache_ttl_seconds > 0
    /\ cached.present
    /\ ~(at - cached.created_at > _get_cache_ttl_seconds)

\* proposeSchemaFromOptions up to its first generator request: the key,
\* _get_cached_schema, and on a miss the request
ProposeStart ==
    /\ preq.pc = "idle"
    /\ \E user_request \in Requests, version \in Versions :
         LET cache_key == _build_cache_key(user_request, version)
             cached == pcache[cache_key]
         IN  IF ProposalUsable(cached, clock)
             THEN /\ preq' = [preq EXCEPT
                                !.pc = "done", !.key = cache_key, !.now = clock,
                                !.entry = pprev[cache_key], !.before = pcache,
                                !.result = Returned(_coerce_proposed_schema(cached.payload))]
                  /\ UNCHANGED <<pcache, pprev>>
             ELSE /\ preq' = [preq EXCEPT
                                !.pc = "gen1_wait", !.key = cache_key, !.now = clock,
                                !.entry = pprev[cache_key], !.before = pcache,
                                !.calls = @ + 1]
                  /\ pcache' = IF _get_cache_ttl_seconds > 0 /\ cached.present
                               THEN [pcache EXCEPT ![cache_key] = NoEntry] ELSE pcache
                  /\ pprev' = pprev
    /\ UNCHANGED <<envVars, clock, agentVars, plan, otherVars>>

\* _set_cached_schema, then the return
ProposeReturn(proposed_schema) ==
    /\ IF _get_cache_ttl_seconds <= 0
       THEN UNCHANGED <<pcache, pprev>>
       ELSE /\ pcache' = [pcache EXCEPT ![preq.key] =
                            [present |-> TRUE, created_at |-> clock,
                             payload |-> proposedSchemaToDict(proposed_schema)]]
            /\ pprev' = [pprev EXCEPT ![preq.key] =
                            [present |-> TRUE, at |-> clock, schema |-> proposed_schema]]
    /\ preq' = [preq EXCEPT !.pc = "done", !.result = Returned(proposed_schema)]

ProposeRaise(exc) ==
    /\ preq' = [preq EXCEPT !.pc = "done", !.result = Raised(exc)]
    /\ UNCHANGED <<pcache, pprev>>

\* the first response: lines 155-158
ProposeRespond ==
    /\ preq.pc = "gen1_wait"
    /\ \E resp \in ProposalResponses :
         IF resp.kind = "call_failed" THEN ProposeRaise("SchemaSynthesisError")
         ELSE IF _parse_and_validate(resp).ok
         THEN ProposeReturn(_parse_and_validate(resp).schema)
         ELSE /\ preq' = [preq EXCEPT !.pc = "gen2_wait", !.calls = @ + 1]
              /\ UNCHANGED <<pcache, pprev>>
    /\ UNCHANGED <<envVars, clock, agentVars, plan, otherVars>>

\* the repair response: lines 166-176
ProposeRepairRespond ==
    /\ preq.pc = "gen2_wait"
    /\ \E resp \in ProposalResponses :
         IF resp.kind = "call_failed" THEN ProposeRaise("SchemaSynthesisError")
         ELSE IF _parse_and_validate(resp).ok
         THEN ProposeReturn(_parse_and_validate(resp).schema)
         ELSE ProposeRaise("SchemaSynthesisError: invalid after one repair attempt")
    /\ UNCHANGED <<envVars, clock, agentVars, plan, otherVars>>

\* the caller is back and may call again
ProposeReset ==
    /\ preq.pc = "done"
    /\ preq.done + 1 < MaxCalls
    /\ preq' = [ProposalIdle EXCEPT !.done = preq.done + 1]
    /\ UNCHANGED <<envVars, clock, agentVars, pcache, pprev, plan, otherVars>>

clearSchemaProposalCache ==
    /\ preq.pc \in {"idle", "done"}
    /\ pcache' = [k \in CacheKeys |-> NoEntry]
    /\ pprev' = [k \in CacheKeys |-> NoSeen]
    /\ UNCHANGED <<envVars, clock, agentVars, preq, plan, otherVars>>

\* the agent-schema globals while only proposals are requested
AgentOff ==
    /\ cache = NoneVal /\ cacheCreatedAt = 0 /\ lock = 0
    /\ source = "unknown" /\ lastError = NoError
    /\ pc = [t \in Threads |-> "off"]
    /\ now = [t \in Threads |-> 0]
    /\ local = [t \in Threads |-> LocalInit]
    /\ result = [t \in Threads |-> NoResult]
    /\ hist = [t \in Threads |-> HistInit]
    /\ prev = NoPrev

\* one caller, one call after the other, of getAgentSchema or of
\* proposeSchemaFromOptions
InitSeq ==
    /\ ttl \in 0..MaxTtl /\ clock = 0 /\ plan = PlanOff /\ OthersOff
    /\ \/ maxRows \in EnvMaxRows /\ AgentInit /\ PropOff
       \/ maxRows = DefaultMaxRows /\ AgentOff /\ PropInit

NextSeq ==
    \/ Call(1) \/ Reset(1)
    \/ clearAgentSchemaCache
    \/ ProposeStart \/ ProposeRespond \/ ProposeRepairRespond \/ ProposeReset
    \/ clearSchemaProposalCache
    \/ Tick

SpecSeq == InitSeq /\ [][NextSeq]_vars

-----------------------------------------------------------------------------
(* Properties of the agent-schema build and of the two caches *)

IsPrefix(s, q) == Len(s) <= Len(q) /\ SubSeq(q, 1, Len(s)) = s

\* the first and the repaired candidate of the call of t, as received
FirstOf(t) == FirstCandidates[maxRows][hist[t].firstResp]
RepairOf(t) == RepairCandidates[maxRows][hist[t].repairResp]
Passes(candidate) == candidate.ok /\ ~candidate.raised /\ candidate.errors = <<>>
FailsValidation(candidate) == candidate.ok /\ ~candidate.raised /\ candidate.errors # <<>>

\* C1: in one uncached build, when the first candidate fails strict
\* validation and the repaired candidate passes it, the repaired candidate
\* is the artifact returned; when the repaired candidate fails too, or the
\* repair call fails, the artifact returned is the fallback and neither
\* rejected candidate.
C1_RepairRoundTrip ==
    \A t \in Threads :
        (pc[t] = "done" /\ hist[t].repairResp # "" /\ FailsValidation(FirstOf(t))) =>
            /\ result[t].kind = "returned"
            /\ Passes(RepairOf(t)) =>
                   Artifact(result[t].value, maxRows) = RepairOf(t).schema
            /\ ~Passes(RepairOf(t)) =>
                   /\ Artifact(result[t].value, maxRows)
                         = _minimal_fallback_agent_schema(maxRows)
                   /\ Artifact(result[t].value, maxRows)
                         \notin {FirstOf(t).schema, RepairOf(t).schema}

\* C2: the fallback passes non-strict validation for every MAX_RESULT_ROWS,
\* so no build that takes the fallback path ends with "Failed to build
\* fallback agent schema".
C2_FallbackAlwaysValid ==
    \A t \in Threads :
        hist[t].path = "fallback" =>
            /\ FallbackCandidates[maxRows].errors = <<>>
            /\ result[t].kind # "raised"

FullOrder == <<"generate", "validate", "repair", "validate", "fallback">>

\* C3: the steps of a build come in the order generate, validate,
\* [repair, validate], [fallback]; the generator is requested at most
\* twice; a repair is requested only after a first candidate was obtained
\* and failed validation; a failed first request goes straight to the
\* fallback.
C3_StepOrder ==
    \A t \in Threads :
        /\ IsPrefix(hist[t].steps, FullOrder)
              \/ IsPrefix(hist[t].steps, <<"generate", "fallback">>)
        /\ hist[t].calls <= 2
        /\ hist[t].calls = Cardinality({i \in DOMAIN hist[t].steps :
                                          hist[t].steps[i] \in {"generate", "repair"}})
        /\ (\E i \in DOMAIN hist[t].steps : hist[t].steps[i] = "repair") =>
              hist[t].firstResp # "" /\ FailsValidation(FirstOf(t))
        /\ (hist[t].firstResp # "" /\ ~FirstOf(t).ok) =>
              hist[t].steps = <<"generate", "fallback">> /\ hist[t].calls = 1

C3_Witness ==
    \E t \in Threads : pc[t] = "done" /\ hist[t].steps = FullOrder

\* C4: whatever the generator does, getAgentSchema ends by returning an
\* artifact that passes non-strict validation; no exception leaves it.
C4_NeverRaises ==
    \A t \in Threads :
        pc[t] = "done" =>
            /\ result[t].kind = "returned"
            /\ _validate_agent_schema(Artifact(result[t].value, maxRows), maxRows, FALSE)
                   = [raised |-> FALSE, errors |-> <<>>]

\* C5: for both caches, a request that finds an entry stored by an earlier
\* request under the same key, with a positive TTL not yet expired, returns
\* an artifact equal to the one the earlier request returned and makes no
\* generator call.
C5_CacheHit ==
    /\ (pc[1] = "done" /\ hist[1].entry # NoneVal /\ ttl > 0
          /\ now[1] - hist[1].entryAt <= ttl) =>
            /\ result[1] = Returned(hist[1].entry)
            /\ hist[1].calls = 0
    /\ (preq.pc = "done" /\ preq.entry.present /\ ttl > 0
          /\ preq.now - preq.entry.at <= ttl) =>
            /\ preq.result = Returned(preq.entry.schema)
            /\ preq.calls = 0

C5_Witness ==
    /\ pc[1] = "done" /\ prev.calls = 1 /\ hist[1].entry # NoneVal
    /\ hist[1].path = "cache" /\ clock > hist[1].entryAt

\* C6: when an earlier call returned a generated or repaired artifact and a
\* later call misses the cache and its generator call fails, the later call
\* returns an artifact equal to the earlier one, the status source is
\* cached_last_good and last_error holds the failure reason.
C6_LastGoodServed ==
    (pc[1] = "done" /\ prev.calls >= 1 /\ prev.good # NoneVal
       /\ hist[1].firstResp # "" /\ ~FirstOf(1).ok) =>
        /\ result[1].kind = "returned"
        /\ Artifact(result[1].value, maxRows) = Artifact(prev.good, maxRows)
        /\ source = "cached_last_good"
        /\ lastError.reason = FirstOf(1).error

\* the path the responses of the call of t lead to
PathOf(t) ==
    IF Passes(FirstOf(t)) THEN "generated"
    ELSE IF hist[t].repairResp # "" /\ Passes(RepairOf(t)) THEN "repaired"
    ELSE "fallback"

SourceOf(path) ==
    CASE path = "generated" -> "gemini"
      [] path = "repaired" -> "gemini_repair"
      [] OTHER -> "fallback"

AgentCacheValidated ==
    cache # NoneVal =>
        _validate_agent_schema(Artifact(cache, maxRows), maxRows, cache.doc # "fallback")
            = [raised |-> FALSE, errors |-> <<>>]

\* every entry of the proposal cache passes validateProposedSchema
ProposalCacheValidated ==
    \A k \in DOMAIN pcache :
        pcache[k].present => validateProposedSchema(pcache[k].payload).ok

\* the step in which a proposeSchemaFromOptions call ends in an error
ProposalFails ==
    /\ preq.pc \in {"gen1_wait", "gen2_wait"}
    /\ preq'.pc = "done" /\ preq'.result.kind = "raised"

\* C26 as stated: the caches hold validated artifacts only, and a
\* proposeSchemaFromOptions call that ends in an error leaves the proposal
\* cache as it was when the call began.
C26_CachesValidatedUnchanged ==
    /\ [](AgentCacheValidated /\ ProposalCacheValidated)
    /\ [][ProposalFails => pcache' = preq.before]_vars

\* the entry of a key as a failed call leaves it: as it was, or removed when
\* it had expired at the start of the call
ExpiredRemoved(k) ==
    \/ pcache'[k] = preq.before[k]
    \/ /\ k = preq.key /\ pcache'[k] = NoEntry
       /\ preq.before[k].present
       /\ preq.now - preq.before[k].created_at > _get_cache_ttl_seconds

\* C26: the caches hold validated artifacts only (the agent-schema cache:
\* strict validation for a generated or repaired artifact, non-strict for
\* the fallback; the proposal cache: validateProposedSchema), and a
\* proposeSchemaFromOptions call that ends in an error stores nothing: every
\* entry is as it was when the call began, except that the entry of the
\* call's own key is removed when it had expired.
C26_CachesValidatedNothingStored ==
    /\ [](AgentCacheValidated /\ ProposalCacheValidated)
    /\ [][ProposalFails => \A k \in DOMAIN pcache : ExpiredRemoved(k)]_vars

C26_Witness ==
    /\ preq.pc = "done" /\ preq.result.kind = "raised" /\ preq.calls = 2
    /\ preq.before[preq.key].present /\ ~pcache[preq.key].present

\* no getAgentSchema call is between its cache check and its return
NoBuildInFlight == \A t \in Threads : pc[t] \in {"idle", "done"}

\* the source and last_error the build of thread t assigned (lines 293-296,
\* 312-314, 329-331, 334-345)
BuildStatus(t) ==
    IF hist[t].path = "generated" THEN [source |-> "gemini", last_error |-> NoneVal]
    ELSE IF hist[t].path = "repaired"
    THEN [source |-> "gemini_repair", last_error |-> NoneVal]
    ELSE [source |-> "fallback",
          last_error |->
              IF hist[t].first = "failed"
              THEN GenerationFailedError(FirstCandidates[maxRows][hist[t].firstResp].error)
              ELSE ValidationFailedError(local[t].errors,
                       RepairCandidates[maxRows][hist[t].repairResp].error)]

\* C27: once no build is in flight, the source and last_error that
\* getAgentSchemaStatus reports are those of the build that produced the
\* artifact held in the cache.
C27_StatusDescribesCache ==
    (NoBuildInFlight /\ cache # NoneVal /\ prev.writer # 0) =>
        /\ getAgentSchemaStatus.source = BuildStatus(prev.writer).source
        /\ getAgentSchemaStatus.last_error = BuildStatus(prev.writer).last_error

\* the same with one build at most: the other thread never called
C27_SingleBuild ==
    (\E t \in Threads : pc[t] = "idle" /\ hist[t] = HistInit) => C27_StatusDescribesCache

\* after a clear, the cache is empty or holds the result of a call whose
\* build began after the clear
EmptyUntilFreshStore ==
    (prev.cleared /\ cache # NoneVal) => prev.writer \notin prev.building

\* after a clear, no call is served from the cache an artifact of a build
\* that was in flight while the clear ran
NoStaleServed ==
    \A t \in Threads :
        (prev.cleared /\ pc[t] = "done" /\ hist[t].path = "cache")
            => prev.writer \notin prev.building

\* C28: once clearAgentSchemaCache has returned, the cache stays empty until
\* a getAgentSchema call that started after the clear stores its own result,
\* and no artifact of a build that started before the clear is served from
\* the cache.
C28_ClearedStaysCleared == EmptyUntilFreshStore /\ NoStaleServed

\* the same with no build in flight while the clear runs
C28_QuietClear == (prev.cleared /\ prev.building = {}) => C28_ClearedStaysCleared

\* C8: the lock is held only while the cache entry is checked or written,
\* never while a generator call is in progress; once both calls are over the
\* cache holds the artifact of the call that wrote last.
C8_LockScope ==
    /\ \A t \in Threads : lock = t => pc[t] \in {"check_locked", "write_locked"}
    /\ \A t \in Threads : pc[t] \in {"gen1_wait", "gen2_wait"} => lock # t
    /\ (\A t \in Threads : pc[t] = "done") =>
          /\ prev.writer = 0 => cache = NoneVal
          /\ prev.writer # 0 => cache = result[prev.writer].value

C8_Witness ==
    /\ pc[1] = "gen1_wait" /\ pc[2] = "gen2_wait" /\ lock = 0

-----------------------------------------------------------------------------
(* SpecSql: one SQL text, validated by _validate_sql_template and then     *)
(* passed through _apply_sql_safety                                        *)

ParamLists == {<<>>} \cup {<<UserParam>>} \cup {<<NoneVal>>}

InitSql ==
    /\ EnvOff /\ AgentOff /\ PropOff /\ OthersOff
    /\ \E sql \in SqlInputs, params \in ParamLists,
          max_limit \in 1..MaxLimitBound :
          \E row_limit \in 0..max_limit :
             plan = [stage |-> "sql", sql |-> sql, params |-> params,
                     row_limit |-> row_limit, max_limit |-> max_limit,
                     errors |-> <<>>, out |-> NoneVal]

\* the text is validated
ValidateSql ==
    /\ plan.stage = "sql"
    /\ plan' = [plan EXCEPT
                  !.stage = "validated",
                  !.errors = _validate_sql_template(plan.sql, plan.max_limit, "k")]
    /\ UNCHANGED <<envVars, clock, agentVars, propVars, otherVars>>

\* the text and its parameters go through _apply_sql_safety
ApplySafety ==
    /\ plan.stage = "validated"
    /\ plan' = [plan EXCEPT
                  !.stage = "applied",
                  !.out = _apply_sql_safety(plan.sql, plan.params, plan.row_limit,
                                            plan.max_limit)]
    /\ UNCHANGED <<envVars, clock, agentVars, propVars, otherVars>>

NextSql == ValidateSql \/ ApplySafety

SpecSql == InitSql /\ [][NextSql]_vars

-----------------------------------------------------------------------------
(* proposeQueryPlan.  A user text is the record of what the patterns of    *)
(* _choose_template_key and _extract_user_values find in it.               *)

Values(ks, limit, stop_id, stop_name, route_short_name) ==
    [type |-> "dict", keys |-> ks, limit |-> limit, top_n |-> limit, stop_id |-> stop_id,
     stop_name |-> stop_name, route_short_name |-> route_short_name]

\* volume: "how many ... people" with at/to/for; signals: the rules one of
\* whose phrases occurs; marker: a specific-intent marker occurs; words:
\* which of route, trip, stop occur; values: _extract_user_values
UserText(text, volume, signals, marker, words, values) ==
    [text |-> text, volume |-> volume, signals |-> signals, marker |-> marker,
     words |-> words, values |-> values]

Texts ==
    { UserText("list routes", FALSE, {"list_routes"}, FALSE, {"route"},
               Values({"route_short_name"}, NoneVal, NoneVal, NoneVal, StrV("s"))),
      UserText("show routes limit 500", FALSE, {"list_routes"}, FALSE, {"route"},
               Values({"route_short_name", "limit"}, IntV(500), NoneVal, NoneVal, StrV("s"))),
      UserText("show arrivals for stop_id 1001 limit 5", FALSE, {"arrivals_for_stop"}, TRUE,
               {"stop"},
               Values({"stop_id", "limit"}, IntV(5), StrV("1001"), NoneVal, NoneVal)),
      UserText("arrivals", FALSE, {"arrivals_for_stop"}, TRUE, {},
               Values({}, NoneVal, NoneVal, NoneVal, NoneVal)),
      UserText("how many people went to Main St", TRUE, {"stop_service_volume"}, FALSE, {},
               Values({"stop_name"}, NoneVal, NoneVal, StrV("Main St"), NoneVal)),
      UserText("how many people were at this stop", TRUE, {}, FALSE, {"stop"},
               Values({}, NoneVal, NoneVal, NoneVal, NoneVal)),
      UserText("hello", FALSE, {}, FALSE, {},
               Values({}, NoneVal, NoneVal, NoneVal, NoneVal)) }

_extract_user_values(user_text) == user_text.values

OrderedRules ==
    <<"stop_service_volume", "arrivals_for_stop", "routes_serving_stop", "stops_on_route",
      "busiest_stops", "busiest_routes", "accessible_stops", "accessible_trips",
      "route_details", "stop_details", "list_stops", "list_routes">>

\* the template key, "" for None
_choose_template_key(user_text, template_keys) ==
    LET hits == {i \in DOMAIN OrderedRules :
                    OrderedRules[i] \in template_keys /\ OrderedRules[i] \in user_text.signals}
    IN  IF "stop_service_volume" \in template_keys /\ user_text.volume
        THEN "stop_service_volume"
        ELSE IF hits # {} THEN OrderedRules[CHOOSE i \in hits : \A j \in hits : i <= j]
        ELSE IF user_text.marker THEN ""
        ELSE IF "route" \in user_text.words /\ "list_routes" \in template_keys
        THEN "list_routes"
        ELSE IF "trip" \in user_text.words /\ "accessible_trips" \in template_keys
        THEN "accessible_trips"
        ELSE IF "stop" \in user_text.words /\ "list_stops" \in template_keys
        THEN "list_stops"
        ELSE ""

_compute_row_limit(extracted, template, max_limit) ==
    LET given == IF "default_limit" \in template.keys
                 THEN Get(template, "default_limit") ELSE IntV(max_limit)
        default_limit == IF PositiveInt(given) THEN given.v ELSE max_limit
        requested == IF "limit" \in extracted.keys /\ IsInt(Get(extracted, "limit"))
                     THEN Get(extracted, "limit").v ELSE default_limit
    IN  Max2(1, Min2(requested, max_limit))

\* extracted.get("stop_name") or extracted.get("quoted")
OrElse(a, b) == IF a = NoneVal \/ a = StrV("") THEN b ELSE a

_resolve_param_value(param_name, extracted, row_limit) ==
    CASE param_name \in {"limit", "top_n", "n"} -> IntV(row_limit)
      [] param_name \in {"route_type", "route_id", "route_short_name", "stop_id"} ->
            Get(extracted, param_name)
      [] param_name \in {"stop_name", "stop_name_substring", "name_substring"} ->
            OrElse(Get(extracted, "stop_name"), Get(extracted, "quoted"))
      [] param_name \in {"lat", "lon", "lng"} -> Get(extracted, param_name)
      [] param_name = "radius_km" ->
            IF Get(extracted, "radius_km") = NoneVal
               /\ Get(extracted, "lat") # NoneVal /\ Get(extracted, "lon") # NoneVal
            THEN IntV(1) ELSE Get(extracted, "radius_km")
      [] OTHER -> Get(extracted, param_name)

\* a check that takes None and the blank string for values
AnyValue(value) == TRUE

_has_required_value(value) ==
    /\ value # NoneVal
    /\ IsStr(value) => value.v \notin {"", " "}

\* the names of one required input, separated by "|"
RequiredGroup(name) ==
    CASE name = "stop_id|stop_name" -> {"stop_id", "stop_name"}
      [] name = "" -> {}
      [] OTHER -> {name}

Plan(template_key, sql, params, display_key, clarifying_question, row_limit) ==
    [template_key |-> template_key, sql |-> sql, params |-> params,
     display_key |-> display_key, clarifying_question |-> clarifying_question,
     row_limit |-> row_limit, not_possible_reason |-> ""]

QuestionlessPlan(reason) ==
    [Plan("gemini_not_possible", NoneVal, <<>>, NoneVal, NoneVal, 0)
        EXCEPT !.not_possible_reason = reason]

_not_possible_query_plan(reason) ==
    [Plan("gemini_not_possible", NoneVal, <<>>, NoneVal, StrV("not possible"), 0)
        EXCEPT !.not_possible_reason = reason]

\* what the generator may answer to the plan prompt
PlanPayload(possible, reason, sql, params, row_limit) ==
    [possible |-> possible, reason |-> reason, sql |-> sql, params |-> params,
     row_limit |-> row_limit]

RoutesSql(star, ph, limits, column) ==
    Sql(star, ph, limits, <<From("routes", "")>>, <<Ref("routes", column)>>)

PlanResponses ==
    {[kind |-> "call_failed", payload |-> NoneVal]}
      \cup {[kind |-> "object", payload |-> q] : q \in
        { PlanPayload(FALSE, StrV("no ridership data"), NoneVal, List(<<>>), NoneVal),
          PlanPayload(FALSE, StrV("can be determined by counting stop_times"), NoneVal,
                      List(<<>>), NoneVal),
          PlanPayload(TRUE, StrV("can answer from stops headers"), NoneVal, List(<<>>),
                      NoneVal),
          PlanPayload(TRUE, NoneVal, BlankSql, List(<<>>), NoneVal),
          PlanPayload(TRUE, NoneVal, RoutesSql(FALSE, {}, <<>>, "route_id"),
                      StrV("none"), NoneVal),
          PlanPayload(TRUE, NoneVal, RoutesSql(FALSE, {}, <<>>, "route_id"),
                      List(<<>>), NoneVal),
          PlanPayload(TRUE, NoneVal, RoutesSql(FALSE, {}, <<Least(1, DefaultMaxRows)>>,
                                               "route_id"),
                      List(<<IntV(500)>>), IntV(500)),
          PlanPayload(TRUE, NoneVal, RoutesSql(TRUE, {}, <<Const(5)>>, "route_id"),
                      List(<<>>), NoneVal),
          PlanPayload(TRUE, NoneVal, RoutesSql(FALSE, {2}, <<Const(5)>>, "route_id"),
                      List(<<StrV("1001")>>), NoneVal),
          PlanPayload(TRUE, NoneVal, RoutesSql(FALSE, {}, <<Const(1)>>, "invented_column"),
                      List(<<>>), IntV(1)) }}

NoPlan == [kind |-> "none", plan |-> NoneVal, exc |-> ""]
PlanReturned(q) == [kind |-> "plan", plan |-> q, exc |-> ""]
PlanRaised(exc) == [kind |-> "raised", plan |-> NoneVal, exc |-> exc]

\* the plan of the generator, None, or the QueryPlanError that leaves
\* _apply_sql_safety
_propose_query_plan_from_headers(max_limit, resp) ==
    IF resp.kind # "object" THEN NoPlan
    ELSE LET payload == resp.payload
             requested_limit == payload.row_limit
             row_limit0 == IF IsInt(requested_limit) THEN requested_limit.v ELSE max_limit
             row_limit == Max2(1, Min2(row_limit0, max_limit))
             applied == _apply_sql_safety(payload.sql, payload.params.items, row_limit,
                                          max_limit)
             validation_errors ==
                 _validate_sql_template(applied.sql, max_limit, "gemini_generated")
         IN  IF payload.possible # TRUE
             THEN PlanReturned(_not_possible_query_plan(
                      IF IsStr(payload.reason) THEN payload.reason.v ELSE ""))
             ELSE IF ~(IsStr(payload.sql) /\ ~payload.sql.blank)
             THEN PlanReturned(_not_possible_query_plan("Gemini returned empty SQL."))
             ELSE IF ~IsList(payload.params)
             THEN PlanReturned(_not_possible_query_plan("Gemini returned invalid params."))
             ELSE IF applied.raised # "" THEN PlanRaised(applied.raised)
             ELSE IF Placeholders(applied.sql) # {}
                     /\ SetMax(Placeholders(applied.sql)) > Len(applied.params)
             THEN PlanReturned(_not_possible_query_plan("SQL placeholders exceed params."))
             ELSE IF validation_errors # <<>>
             THEN PlanReturned(_not_possible_query_plan(validation_errors[1].msg))
             ELSE PlanReturned(Plan("gemini_generated", applied.sql, applied.params,
                                    NoneVal, NoneVal, row_limit))

\* "I need more detail before querying: " and the missing groups, each one
\* its names in order joined by " or ", the groups joined by ", "
MissingQuestion(missing_groups) ==
    [type |-> "str", v |-> "I need more detail before querying: ", names |-> missing_groups]

ClarifyingQuestion == StrV("What GTFS query do you want?")

\* template_map[template_key]: of the templates with the key, the last
TemplateFor(templates, template_key) ==
    templates[CHOOSE i \in DOMAIN templates :
                 /\ KeyedTemplate(templates[i]) /\ templates[i].key.v = template_key
                 /\ \A j \in DOMAIN templates :
                       (KeyedTemplate(templates[j]) /\ templates[j].key.v = template_key)
                          => j <= i]

\* a proposeQueryPlan that lets the not-possible plan of the generator stand
NotPossibleStands(user_text, agent_schema, max_limit, gemini_not_possible_plan) ==
    IF gemini_not_possible_plan # NoneVal THEN PlanReturned(gemini_not_possible_plan)
    ELSE PlanReturned(Plan("", NoneVal, <<>>, NoneVal, ClarifyingQuestion, 0))

\* proposeQueryPlan from template_map on: lines 392-470
LocalTemplatePlan(user_text, agent_schema, max_limit, gemini_not_possible_plan) ==
    LET templates == Get(agent_schema, "query_templates").items
        template_keys == {templates[i].key.v :
                             i \in {k \in DOMAIN templates : KeyedTemplate(templates[k])}}
        template_key == _choose_template_key(user_text, template_keys)
        template == TemplateFor(templates, template_key)
        extracted == _extract_user_values(user_text)
        row_limit == _compute_row_limit(extracted, template, max_limit)
        required_inputs == Get(template, "required_inputs").items
        required_groups ==
            SelectSeq([i \in DOMAIN required_inputs |->
                          RequiredGroup(required_inputs[i].name.v)],
                      LAMBDA group : group # {})
        param_names == Get(template, "params").items
        params_list == [i \in DOMAIN param_names |->
                           _resolve_param_value(param_names[i], extracted, row_limit)]
        ParamMapGet(name) ==
            IF \E i \in DOMAIN param_names : param_names[i] = name
            THEN params_list[CHOOSE i \in DOMAIN param_names :
                                /\ param_names[i] = name
                                /\ \A j \in DOMAIN param_names :
                                      param_names[j] = name => j <= i]
            ELSE NoneVal
        HasAny(group) ==
            \E name \in group :
                \/ _has_required_value(ParamMapGet(name))
                \/ _has_required_value(Get(extracted, name))
        missing_groups == SelectSeq(required_groups, LAMBDA group : ~HasAny(group))
        sql == Get(template, "sql_template")
        applied == _apply_sql_safety(sql, params_list, row_limit, max_limit)
    IN  IF template_key = ""
        THEN IF gemini_not_possible_plan # NoneVal
             THEN PlanReturned(gemini_not_possible_plan)
             ELSE PlanReturned(Plan("", NoneVal, <<>>, NoneVal, ClarifyingQuestion, 0))
        ELSE IF missing_groups # <<>>
        THEN PlanReturned(Plan("", NoneVal, <<>>, Get(template, "display_key"),
                               MissingQuestion(missing_groups), row_limit))
        ELSE IF sql.blank THEN PlanRaised("empty sql_template")
        ELSE IF applied.raised # "" THEN PlanRaised(applied.raised)
        ELSE PlanReturned(Plan(template_key, applied.sql, applied.params,
                               Get(template, "display_key"), NoneVal, row_limit))

\* the agentSchema argument
PlanSchemaNames ==
    {"fallback", "generated", "star_template", "placeholder_template", "no_templates"}

PlanSchema(name, max_rows) ==
    LET generated == FirstCandidates[max_rows]["unclamped"].schema
    IN  CASE name = "fallback" -> FallbackCandidates[max_rows].schema
          [] name = "generated" -> generated
          [] name = "star_template" ->
                [generated EXCEPT !.query_templates.items[1].sql_template.selectStar = TRUE]
          [] name = "placeholder_template" ->
                [generated EXCEPT !.query_templates.items[1].sql_template.placeholders = {3}]
          [] OTHER -> [generated EXCEPT !.query_templates = List(<<>>)]

InitPlan ==
    /\ maxRows \in EnvMaxRows /\ ttl = 0 /\ clock = 0
    /\ AgentOff /\ PropOff /\ OthersOff
    /\ \E user_text \in Texts, name \in PlanSchemaNames, api_key \in BOOLEAN :
          plan = [stage |-> "input", text |-> user_text, schema |-> name,
                  api_key |-> api_key, calls |-> 0, resp |-> NoneVal,
                  result |-> NoPlan]

\* proposeQueryPlan up to the generator request; without GEMINI_API_KEY
\* there is none and the call ends
PlanStart ==
    /\ plan.stage = "input"
    /\ LET agentSchema == PlanSchema(plan.schema, maxRows)
           templates == Get(agentSchema, "query_templates")
       IN  IF ~IsList(templates) \/ templates.items = <<>>
           THEN plan' = [plan EXCEPT !.stage = "done",
                                     !.result = PlanRaised("query_templates must contain at least one template")]
           ELSE IF ~plan.api_key
           THEN plan' = [plan EXCEPT !.stage = "done",
                                     !.result = LocalTemplatePlan(plan.text, agentSchema,
                                                                  maxRows, NoneVal)]
           ELSE plan' = [plan EXCEPT !.stage = "waiting", !.calls = @ + 1]
    /\ UNCHANGED <<envVars, clock, agentVars, propVars, otherVars>>

\* the generator answers and proposeQueryPlan ends
PlanRespond ==
    /\ plan.stage = "waiting"
    /\ \E resp \in PlanResponses :
         LET gemini_plan == _propose_query_plan_from_headers(maxRows, resp)
             agentSchema == PlanSchema(plan.schema, maxRows)
         IN  IF gemini_plan.kind = "raised"
             THEN plan' = [plan EXCEPT !.stage = "done", !.resp = resp,
                                       !.result = gemini_plan]
             ELSE IF gemini_plan.kind = "plan"
                     /\ gemini_plan.plan.template_key # "gemini_not_possible"
             THEN plan' = [plan EXCEPT !.stage = "done", !.resp = resp,
                                       !.result = gemini_plan]
             ELSE plan' = [plan EXCEPT
                             !.stage = "done", !.resp = resp,
                             !.result = LocalTemplatePlan(plan.text, agentSchema, maxRows,
                                                          gemini_plan.plan)]
    /\ UNCHANGED <<envVars, clock, agentVars, propVars, otherVars>>

NextPlan == PlanStart \/ PlanRespond

SpecPlan == InitPlan /\ [][NextPlan]_vars

\* C9: a plan that proposeQueryPlan returns with sql, from the generator or
\* from a local template, has no SELECT * and no placeholder index greater
\* than the length of its params.
C9_PlanSqlSafe ==
    (plan.stage = "done" /\ plan.result.kind = "plan" /\ plan.result.plan.sql # NoneVal) =>
        /\ ~HasSelectStar(plan.result.plan.sql)
        /\ \A i \in Placeholders(plan.result.plan.sql) :
              i <= Len(plan.result.plan.params)

C9_Witness ==
    /\ plan.stage = "done" /\ plan.result.kind = "plan"
    /\ plan.result.plan.template_key = "gemini_generated"
    /\ Placeholders(plan.result.plan.sql) # {}

\* C10: for a text that _validate_sql_template accepts for max_limit and a
\* row_limit <= max_limit, the statement _apply_sql_safety returns has an
\* effective row bound, and it is <= max_limit.
C10_EffectiveLimit ==
    (plan.stage = "applied" /\ plan.errors = <<>> /\ plan.row_limit <= plan.max_limit) =>
        /\ plan.out.raised = "" =>
              /\ EffectiveLimit(plan.out.sql, plan.out.params).bounded
              /\ EffectiveLimit(plan.out.sql, plan.out.params).v <= plan.max_limit

\* the generator answered the plan request with SQL and a params list
GeneratorGaveSql ==
    /\ plan.stage = "done" /\ plan.resp # NoneVal /\ plan.resp.kind = "object"
    /\ plan.resp.payload.possible = TRUE
    /\ IsStr(plan.resp.payload.sql) /\ ~plan.resp.payload.sql.blank
    /\ IsList(plan.resp.payload.params)

\* the SQL of the generator, as received, fails a safety or structural check
GeneratorSqlRejected ==
    LET payload == plan.resp.payload
    IN  \/ HasSelectStar(payload.sql)
        \/ PlaceholderGuard(payload.sql, payload.params.items)
        \/ _validate_sql_template(payload.sql, maxRows, "gemini_generated") # <<>>

\* C11: when the generator answers a plan request with SQL that fails the
\* safety or structural checks, proposeQueryPlan does not raise and does not
\* return that SQL; what it returns is what local template matching gives: a
\* local template plan, or a plan without sql.
C11_InvalidSqlFallsBack ==
    (GeneratorGaveSql /\ GeneratorSqlRejected
       /\ plan.schema \in {"fallback", "generated"}) =>
        /\ plan.result.kind = "plan"
        /\ plan.result.plan.sql # plan.resp.payload.sql
        /\ plan.result.plan.template_key # "gemini_generated" =>
              \E q \in {NoneVal, _not_possible_query_plan("")} :
                 \/ plan.result = LocalTemplatePlan(plan.text,
                                       PlanSchema(plan.schema, maxRows), maxRows, q)
                 \/ plan.result.plan.template_key = "gemini_not_possible"

\* C12: a plan that proposeQueryPlan returns, on whichever path, has exactly
\* one of sql and clarifying_question non-null.
C12_SqlXorQuestion ==
    (plan.stage = "done" /\ plan.result.kind = "plan") =>
        (plan.result.plan.sql # NoneVal) # (plan.result.plan.clarifying_question # NoneVal)

C12_Witness ==
    /\ plan.stage = "done" /\ plan.result.kind = "plan"
    /\ plan.resp # NoneVal
    /\ plan.result.plan.template_key = "gemini_not_possible"
    /\ plan.result.plan.sql = NoneVal
    /\ plan.result.plan.clarifying_question = StrV("not possible")

\* proposeQueryPlan returned the plan of a local template
LocalTemplateHit ==
    /\ plan.stage = "done" /\ plan.result.kind = "plan"
    /\ plan.result.plan.sql # NoneVal
    /\ plan.result.plan.template_key \notin {"", "gemini_generated", "gemini_not_possible"}

MatchedTemplate ==
    TemplateFor(Get(PlanSchema(plan.schema, maxRows), "query_templates").items,
                plan.result.plan.template_key)

\* the limit the user stated, or else the default_limit of the template
StatedLimit ==
    LET extracted == plan.text.values
    IN  IF "limit" \in extracted.keys /\ IsInt(extracted.limit) THEN extracted.limit.v
        ELSE Get(MatchedTemplate, "default_limit").v

\* the positions of the parameters that carry the limit: those named as a
\* limit, and those of a LIMIT clause of the text
LimitParams ==
    LET names == Get(MatchedTemplate, "params").items
        sql == plan.result.plan.sql
    IN  {i \in DOMAIN names : names[i] \in {"limit", "top_n", "n"}}
          \cup {sql.limits[k].idx : k \in {j \in DOMAIN sql.limits :
                                              sql.limits[j].shape \in {"least", "param"}}}

\* C22: the row_limit of a local template plan is the limit the user stated,
\* or else the template's default_limit, clamped into [1, max_limit], and
\* no limit parameter of the plan is bound to more than the row_limit.
C22_RowLimitClamped ==
    LocalTemplateHit =>
        /\ 1 <= plan.result.plan.row_limit
        /\ plan.result.plan.row_limit <= maxRows
        /\ plan.result.plan.row_limit = Max2(1, Min2(StatedLimit, maxRows))
        /\ \A i \in LimitParams \cap DOMAIN plan.result.plan.params :
              /\ IsInt(plan.result.plan.params[i])
              /\ plan.result.plan.params[i].v <= plan.result.plan.row_limit

\* what the generator path gave proposeQueryPlan: nothing without a request
GeneratorPlan ==
    IF plan.calls = 0 THEN NoPlan
    ELSE _propose_query_plan_from_headers(maxRows, plan.resp)

PlanTemplates == Get(PlanSchema(plan.schema, maxRows), "query_templates")

\* the template that local matching chose, "" when none
ChosenKey ==
    _choose_template_key(plan.text,
        {PlanTemplates.items[i].key.v :
            i \in {k \in DOMAIN PlanTemplates.items : KeyedTemplate(PlanTemplates.items[k])}})

\* proposeQueryPlan ended after local matching chose a template
LocalMatched ==
    /\ plan.stage = "done"
    /\ IsList(PlanTemplates) /\ PlanTemplates.items # <<>>
    /\ \/ GeneratorPlan.kind = "none"
       \/ /\ GeneratorPlan.kind = "plan"
          /\ GeneratorPlan.plan.template_key = "gemini_not_possible"
    /\ ChosenKey # ""

NonEmptyValue(v) == v # NoneVal /\ (IsStr(v) => v.v \notin {"", " "})

\* the required-input groups of the chosen template none of whose
\* alternatives has a value, as a parameter or as an extracted value
UnsatisfiedGroups ==
    LET template == TemplateFor(PlanTemplates.items, ChosenKey)
        inputs == Get(template, "required_inputs").items
        names == Get(template, "params").items
        extracted == plan.text.values
        row_limit == _compute_row_limit(extracted, template, maxRows)
        Resolved(name) ==
            IF name \in SeqToSet(names)
            THEN _resolve_param_value(name, extracted, row_limit) ELSE NoneVal
    IN  {group \in {RequiredGroup(inputs[i].name.v) : i \in DOMAIN inputs} \ {{}} :
            \A name \in group :
                ~NonEmptyValue(Resolved(name)) /\ ~NonEmptyValue(Get(extracted, name))}

\* C23: when local matching chose a template one of whose required-input
\* groups has no alternative with a value, the plan returned has no sql, no
\* params and a clarifying question that names exactly the unsatisfied
\* groups; a plan with sql is returned only when every group is satisfied.
C23_MissingGroupAsks ==
    LocalMatched =>
        /\ UnsatisfiedGroups # {} =>
              /\ plan.result.kind = "plan"
              /\ plan.result.plan.sql = NoneVal
              /\ plan.result.plan.params = <<>>
              /\ plan.result.plan.clarifying_question.type = "str"
              /\ SeqToSet(plan.result.plan.clarifying_question.names) = UnsatisfiedGroups
        /\ (plan.result.kind = "plan" /\ plan.result.plan.sql # NoneVal) =>
              UnsatisfiedGroups = {}

C23_Witness ==
    /\ LocalMatched /\ ChosenKey = "stop_service_volume"
    /\ UnsatisfiedGroups = {{"stop_id", "stop_name"}}
    /\ plan.result.plan.sql = NoneVal
    /\ plan.result.plan.clarifying_question.names = <<{"stop_id", "stop_name"}>>

\* the generator answered the plan request with possible = false
DeclaredInfeasible ==
    /\ plan.stage = "done" /\ plan.calls = 1
    /\ plan.resp.kind = "object" /\ plan.resp.payload.possible = FALSE

IsNotPossiblePlan(q) ==
    /\ q.template_key = "gemini_not_possible"
    /\ q.clarifying_question = StrV("not possible")
    /\ q.sql = NoneVal /\ q.params = <<>>

SecondCallDue ==
    /\ plan.stage = "done" /\ plan.calls >= 1 /\ plan.resp.kind = "object"
    /\ \/ plan.resp.payload.possible = TRUE
       \/ /\ plan.resp.payload.possible = FALSE
          /\ plan.resp.payload.reason = StrV("can be determined by counting stop_times")

\* C25: the generator path makes a feasibility request and then a separate
\* SQL request: when the first answer declares the request possible, or not
\* possible with a reason showing that it can be answered, proposeQueryPlan
\* ends after exactly two generator requests.
C25_TwoCalls == SecondCallDue => plan.calls = 2

-----------------------------------------------------------------------------
(* executeParameterizedQuery: one call on a query plan, against a database *)
(* that may refuse the engine, the connection or the statement             *)

MaxDbRows == 3
MaxPlanRowLimit == 2

\* sql.strip() is non-empty
HasSql(sql) == IsStr(sql) /\ ~sql.blank

\* _convert_postgres_params: the bind parameters, or the QueryPlanError of a
\* placeholder index that is <= 0 or beyond params
_convert_postgres_params(sql, params) ==
    IF \E idx \in Placeholders(sql) : idx <= 0 \/ idx > Len(params)
    THEN [raised |-> "Invalid SQL placeholder index", bind |-> {}]
    ELSE [raised |-> "", bind |-> Placeholders(sql)]

NeverTruthy(v) == FALSE

\* "if clarifying:" -- None and the empty string are falsy
Truthy(v) == IsStr(v) /\ v.v # ""

\* the row_limit of lines 575-576
ExecRowLimit(safety_row_limit, env_max) ==
    LET row_limit == IF safety_row_limit = NoneVal THEN env_max ELSE safety_row_limit.v
    IN  Max2(1, Min2(row_limit, env_max))

Untruncated(rows, row_limit) == rows

\* rows[:row_limit] when len(rows) > row_limit
Truncate(rows, row_limit) ==
    IF Len(rows) > row_limit THEN SubSeq(rows, 1, row_limit) ELSE rows

ExecResult(executed, success, rows, columns, error) ==
    [kind |-> "returned", executed |-> executed, success |-> success, rows |-> rows,
     row_count |-> Len(rows), columns |-> columns, error |-> error]
ExecRaised(exc) ==
    [kind |-> "raised", executed |-> FALSE, success |-> FALSE, rows |-> <<>>,
     row_count |-> 0, columns |-> <<>>, error |-> exc]
ExecNone ==
    [kind |-> "none", executed |-> FALSE, success |-> FALSE, rows |-> <<>>,
     row_count |-> 0, columns |-> <<>>, error |-> ""]

\* lines 558-565
Refused == ExecResult(FALSE, FALSE, <<>>, <<>>,
                      "Query plan is incomplete and requires clarification.")
\* lines 584-591
Failed(exc) == ExecResult(TRUE, FALSE, <<>>, <<>>, exc)
\* lines 593-604
Succeeded(rows, row_limit) ==
    LET kept == Truncate(rows, row_limit)
    IN  ExecResult(TRUE, TRUE, kept,
                   IF kept = <<>> THEN <<>> ELSE <<"route_id">>, "None")

\* the query plans handed to executeParameterizedQuery
ExecPlans ==
    [clarifying_question : {NoneVal, StrV(""), StrV("not possible")},
     sql : {NoneVal, BlankSql,
            RoutesSql(FALSE, {}, <<Const(5)>>, "route_id"),
            RoutesSql(FALSE, {}, <<Least(1, DefaultMaxRows)>>, "route_id"),
            RoutesSql(FALSE, {2}, <<Const(5)>>, "route_id")},
     params : {StrV("none"), List(<<>>), List(<<IntV(1)>>)},
     row_limit : {NoneVal} \cup {IntV(n) : n \in 0..MaxPlanRowLimit}]

InitExec ==
    /\ maxRows \in EnvMaxRows /\ ttl = 0 /\ clock = 0
    /\ AgentOff /\ PropOff /\ plan = PlanOff
    /\ ddl = PlanOff /\ probe = PlanOff
    /\ \E query_plan \in ExecPlans :
          exec = [stage |-> "input", plan |-> query_plan, engines |-> 0,
                  connections |-> 0, statements |-> 0, fetched |-> <<>>,
                  result |-> ExecNone]

\* lines 556-576: up to the try block
ExecStart ==
    /\ exec.stage = "input"
    /\ LET q == exec.plan
           converted == _convert_postgres_params(q.sql, q.params.items)
       IN  IF Truthy(q.clarifying_question)
           THEN exec' = [exec EXCEPT !.stage = "done", !.result = Refused]
           ELSE IF ~HasSql(q.sql)
           THEN exec' = [exec EXCEPT !.stage = "done",
                                     !.result = ExecRaised("Query plan is missing SQL.")]
           ELSE IF ~IsList(q.params)
           THEN exec' = [exec EXCEPT !.stage = "done",
                            !.result = ExecRaised("Query plan params must be a list.")]
           ELSE IF converted.raised # ""
           THEN exec' = [exec EXCEPT !.stage = "done",
                                     !.result = ExecRaised(converted.raised)]
           ELSE exec' = [exec EXCEPT !.stage = "engine"]
    /\ UNCHANGED <<envVars, clock, agentVars, propVars, plan, ddl, probe>>

\* line 579: get_engine() returns the engine, or raises the RuntimeError of
\* _select_database_url, which "except SQLAlchemyError" does not catch
GetEngine ==
    /\ exec.stage = "engine"
    /\ \/ exec' = [exec EXCEPT !.stage = "connect", !.engines = @ + 1]
       \/ exec' = [exec EXCEPT !.stage = "done",
                                !.result = ExecRaised("RuntimeError")]
    /\ UNCHANGED <<envVars, clock, agentVars, propVars, plan, ddl, probe>>

\* line 580: engine.connect()
Connect ==
    /\ exec.stage = "connect"
    /\ \/ exec' = [exec EXCEPT !.stage = "execute", !.connections = @ + 1]
       \/ exec' = [exec EXCEPT !.stage = "done",
                                !.result = Failed("OperationalError")]
    /\ UNCHANGED <<envVars, clock, agentVars, propVars, plan, ddl, probe>>

\* lines 581-604: the statement runs and the rows are read
Execute ==
    /\ exec.stage = "execute"
    /\ \/ \E n \in 0..MaxDbRows :
            LET rows == [i \in 1..n |-> i]
            IN  exec' = [exec EXCEPT
                           !.stage = "done", !.statements = @ + 1,
                           !.fetched = rows,
                           !.result = Succeeded(rows,
                                         ExecRowLimit(exec.plan.row_limit, maxRows))]
       \/ exec' = [exec EXCEPT !.stage = "done", !.statements = @ + 1,
                                !.result = Failed("ProgrammingError")]
    /\ UNCHANGED <<envVars, clock, agentVars, propVars, plan, ddl, probe>>

NextExec == ExecStart \/ GetEngine \/ Connect \/ Execute

SpecExec == InitExec /\ [][NextExec]_vars

\* C13: executeParameterizedQuery on a plan that carries a clarifying
\* question returns executed = false, success = false, row_count = 0, and
\* obtains no engine, opens no connection and executes no statement.
C13_ClarifyingRefused ==
    (IsStr(exec.plan.clarifying_question) /\ exec.plan.clarifying_question.v # "") =>
        /\ exec.engines = 0 /\ exec.connections = 0 /\ exec.statements = 0
        /\ exec.stage \in {"input", "done"}
        /\ exec.stage = "done" =>
              /\ exec.result.kind = "returned"
              /\ ~exec.result.executed /\ ~exec.result.success
              /\ exec.result.row_count = 0

C13_Witness ==
    /\ exec.stage = "done" /\ exec.result = Refused
    /\ exec.plan.clarifying_question = StrV("not possible")
    /\ HasSql(exec.plan.sql)

\* C14: for a plan with SQL and a params list that covers its placeholders,
\* executeParameterizedQuery never raises; a failure to obtain the engine, to connect or to execute is
\* returned as success = false with the error text, no rows and row_count 0.
C14_FailuresReturned ==
    (/\ exec.stage = "done"
     /\ exec.plan.clarifying_question \in {NoneVal, StrV("")}
     /\ HasSql(exec.plan.sql) /\ IsList(exec.plan.params)
     /\ \A idx \in Placeholders(exec.plan.sql) :
           idx \in 1..Len(exec.plan.params.items)) =>
        /\ exec.result.kind = "returned"
        /\ exec.result.error # "None" =>
              /\ ~exec.result.success
              /\ exec.result.rows = <<>> /\ exec.result.row_count = 0

\* C15 as stated: a successful result has row_count equal to the number of
\* rows returned, at most the row_limit of the plan and at most
\* MAX_RESULT_ROWS; an empty result has no columns.
C15_RowsWithinLimit ==
    (exec.stage = "done" /\ exec.result.kind = "returned" /\ exec.result.success) =>
        /\ exec.result.row_count = Len(exec.result.rows)
        /\ exec.plan.row_limit # NoneVal =>
              exec.result.row_count <= exec.plan.row_limit.v
        /\ exec.result.row_count <= maxRows
        /\ exec.result.rows = <<>> => exec.result.columns = <<>>

\* C15, amended: a successful result has row_count equal to the number of
\* rows returned, which are the first rows the database gave, at most
\* max(1, min(row_limit, MAX_RESULT_ROWS)) of them (row_limit being
\* MAX_RESULT_ROWS when the plan names none); an empty result has no
\* columns and success = true.
C15_RowsWithinFlooredLimit ==
    (exec.stage = "done" /\ exec.result.kind = "returned" /\ exec.result.executed
       /\ exec.result.error = "None") =>
        LET row_limit == IF exec.plan.row_limit = NoneVal THEN maxRows
                         ELSE exec.plan.row_limit.v
            bound == Max2(1, Min2(row_limit, maxRows))
        IN  /\ exec.result.success
            /\ exec.result.row_count = Len(exec.result.rows)
            /\ exec.result.row_count = Min2(Len(exec.fetched), bound)
            /\ exec.result.rows = SubSeq(exec.fetched, 1, exec.result.row_count)
            /\ exec.result.rows = <<>> => exec.result.columns = <<>>

C15_Witness ==
    /\ exec.stage = "done" /\ exec.result.success
    /\ exec.plan.row_limit = IntV(2) /\ maxRows = DefaultMaxRows
    /\ Len(exec.fetched) = 3 /\ exec.result.row_count = 2

-----------------------------------------------------------------------------
(* schema_execution.py: build_schema_statements.  A table is its name, the *)
(* set of ref_table names of its foreign keys and its number of indexes.   *)

MaxFks == 2
MaxIndexes == 1

TableIdents == {"a", "b", "c"}
\* ref_table values: a listed table, one written in upper case, one that is
\* not in the proposal, one that is no identifier
RefIdents == TableIdents \cup {"B", "zz", "bad id"}

\* _IDENTIFIER_RE.match(name): ^[a-z_][a-z0-9_]*$
_IDENTIFIER_RE(name) == name # "bad id"

\* _safe_ident: value.strip().lower()
_safe_ident(value) == IF value = "B" THEN "b" ELSE value

\* the order of sorted() on the identifiers
IdentRank(name) ==
    CASE name = "a" -> 1 [] name = "b" -> 2 [] name = "c" -> 3 [] OTHER -> 4

RECURSIVE Sorted(_)
Sorted(S) ==
    IF S = {} THEN <<>>
    ELSE LET least == CHOOSE x \in S : \A y \in S : IdentRank(x) <= IdentRank(y)
         IN  <<least>> \o Sorted(S \ {least})

TableNamed(tables, name) ==
    tables[CHOOSE i \in DOMAIN tables : _safe_ident(tables[i].name) = name]

\* lines 208-216: dependencies[table_name]
Dependencies(tables, name) ==
    LET listed == {_safe_ident(tables[i].name) : i \in DOMAIN tables}
    IN  {_safe_ident(ref) : ref \in TableNamed(tables, name).foreign_keys}
           \cap (listed \ {name})

\* lines 222-228: the queue is drained
RECURSIVE Drain(_, _, _, _)
Drain(queue, in_degree, ordered, dependents) ==
    IF queue = <<>> THEN ordered
    ELSE LET current == Head(queue)
             lowered == [name \in DOMAIN in_degree |->
                           IF name \in dependents[current]
                           THEN in_degree[name] - 1 ELSE in_degree[name]]
             freed == SelectSeq(Sorted(dependents[current]),
                                LAMBDA name : lowered[name] = 0)
         IN  Drain(Tail(queue) \o freed, lowered, Append(ordered, current), dependents)

ListedOrder(tables) ==
    [raised |-> "", names |-> [i \in DOMAIN tables |-> _safe_ident(tables[i].name)]]

\* lines 202-206: the first table whose name is refused, if any
NameError(tables) ==
    LET name(i) == _safe_ident(tables[i].name)
        refused == {i \in DOMAIN tables :
                       \/ ~_IDENTIFIER_RE(name(i))
                       \/ \E j \in 1..(i - 1) : name(j) = name(i)}
        first == CHOOSE i \in refused : \A j \in refused : i <= j
    IN  IF refused = {} THEN ""
        ELSE IF ~_IDENTIFIER_RE(name(first)) THEN "table.name has invalid identifier"
        ELSE "Duplicate table name"

\* lines 208-213: a ref_table that is no identifier
RefTableError(tables) ==
    IF \E i \in DOMAIN tables :
          \E ref \in tables[i].foreign_keys : ~_IDENTIFIER_RE(_safe_ident(ref))
    THEN "foreign_keys.ref_table has invalid identifier" ELSE ""

\* the order the queue gives, without the test of line 230
DrainedOrder(tables) ==
    LET listed == {_safe_ident(tables[i].name) : i \in DOMAIN tables}
        in_degree == [name \in listed |-> Cardinality(Dependencies(tables, name))]
        dependents == [ref \in listed |->
                          {name \in listed : ref \in Dependencies(tables, name)}]
        queue == Sorted({name \in listed : in_degree[name] = 0})
    IN  [raised |-> "", names |-> Drain(queue, in_degree, <<>>, dependents)]

\* _topological_order_tables: the names of the tables in the order returned,
\* or the SchemaExecutionError of a refused name or ref_table
_topological_order_tables(tables) ==
    LET listed == {_safe_ident(tables[i].name) : i \in DOMAIN tables}
        in_degree == [name \in listed |-> Cardinality(Dependencies(tables, name))]
        dependents == [ref \in listed |->
                          {name \in listed : ref \in Dependencies(tables, name)}]
        queue == Sorted({name \in listed : in_degree[name] = 0})
        ordered == Drain(queue, in_degree, <<>>, dependents)
    IN  IF NameError(tables) # ""
        THEN [raised |-> NameError(tables), names |-> <<>>]
        ELSE IF RefTableError(tables) # ""
        THEN [raised |-> RefTableError(tables), names |-> <<>>]
        ELSE IF Len(ordered) # Len(tables)
        THEN [raised |-> "", names |-> Sorted(listed)]
        ELSE [raised |-> "", names |-> ordered]

CreateTable(name) == [kind |-> "create_table", table |-> name, index |-> 0]
CreateIndex(name, i) == [kind |-> "create_index", table |-> name, index |-> i]

RECURSIVE Flatten(_)
Flatten(seqs) == IF seqs = <<>> THEN <<>> ELSE Head(seqs) \o Flatten(Tail(seqs))

\* what the columns, foreign keys and indexes of a table are like: all
\* well formed; a column whose name is no identifier; a column whose type is
\* absent or blank; a column whose type is null (str(None) is not blank); a
\* foreign key with on_delete "set default"; one with on_delete " CASCADE ";
\* an index whose name is no identifier; an index with no columns
SchemaTableBodies ==
    {"plain", "column_ident", "missing_type", "null_type", "on_delete",
     "on_delete_upper", "index_ident", "index_no_columns"}

NothingRefused(table) == ""

\* _build_create_table_statement: the SchemaExecutionError raised, "" if none
_build_create_table_statement(table) ==
    IF table.body = "column_ident" THEN "column.name has invalid identifier"
    ELSE IF table.body = "missing_type" THEN "Column is missing type"
    ELSE IF table.body = "on_delete" /\ table.foreign_keys # {}
    THEN "Foreign key has invalid on_delete"
    ELSE ""

\* _build_index_statements: the SchemaExecutionError raised, "" if none
_build_index_statements(table) ==
    IF table.indexes = 0 THEN ""
    ELSE IF table.body = "index_ident" THEN "indexes.name has invalid identifier"
    ELSE IF table.body = "index_no_columns" THEN "Index must have at least one column"
    ELSE ""

\* the first error of the two loops of lines 39-42 over the ordered tables
FirstRaised(tables, names, Build(_)) ==
    LET raising == {i \in DOMAIN names : Build(TableNamed(tables, names[i])) # ""}
        first == CHOOSE i \in raising : \A k \in raising : i <= k
    IN  IF raising = {} THEN "" ELSE Build(TableNamed(tables, names[first]))

\* build_schema_statements: the CREATE TABLE statements of the ordered
\* tables, then their CREATE INDEX statements
build_schema_statements(tables) ==
    LET ordered == _topological_order_tables(tables)
    IN  IF ordered.raised # "" THEN [raised |-> ordered.raised, statements |-> <<>>]
        ELSE IF FirstRaised(tables, ordered.names, _build_create_table_statement) # ""
        THEN [raised |-> FirstRaised(tables, ordered.names, _build_create_table_statement),
              statements |-> <<>>]
        ELSE IF FirstRaised(tables, ordered.names, _build_index_statements) # ""
        THEN [raised |-> FirstRaised(tables, ordered.names, _build_index_statements),
              statements |-> <<>>]
        ELSE [raised |-> "",
              statements |->
                 [i \in DOMAIN ordered.names |-> CreateTable(ordered.names[i])]
                 \o Flatten([i \in DOMAIN ordered.names |->
                       [k \in 1..TableNamed(tables, ordered.names[i]).indexes |->
                           CreateIndex(ordered.names[i], k)]])]

SchemaTable(name, foreign_keys, indexes) ==
    [name |-> name, foreign_keys |-> foreign_keys, indexes |-> indexes, body |-> "plain"]

\* the lists of tables: each identifier at most once, "a" twice, a name
\* written in upper case, a name that is no identifier
TableNameLists ==
    {<<>>, <<"a", "a">>, <<"b", "B">>, <<"B", "a">>, <<"c", "B", "a">>,
     <<"bad id">>, <<"a", "bad id">>}
      \cup {<<x>> : x \in TableIdents}
      \cup {<<x, y>> : <<x, y>> \in {q \in TableIdents \X TableIdents : q[1] # q[2]}}
      \cup {<<x, y, z>> : <<x, y, z>> \in
               {q \in TableIdents \X TableIdents \X TableIdents :
                   q[1] # q[2] /\ q[1] # q[3] /\ q[2] # q[3]}}

FkSets == {S \in SUBSET RefIdents : Cardinality(S) <= MaxFks}

InitOrder ==
    /\ EnvOff /\ AgentOff /\ PropOff /\ plan = PlanOff
    /\ exec = PlanOff /\ probe = PlanOff
    /\ \E names \in TableNameLists :
         \E fks \in [DOMAIN names -> FkSets], indexes \in 0..MaxIndexes :
            ddl = [stage |-> "proposal",
                   tables |-> [i \in DOMAIN names |->
                                 SchemaTable(names[i], fks[i],
                                             IF i = 1 THEN indexes ELSE 0)],
                   raised |-> "", statements |-> <<>>]

BuildStatements ==
    /\ ddl.stage = "proposal"
    /\ LET built == build_schema_statements(ddl.tables)
       IN  ddl' = [ddl EXCEPT !.stage = "built", !.raised = built.raised,
                              !.statements = built.statements]
    /\ UNCHANGED <<envVars, clock, agentVars, propVars, plan, exec, probe>>

NextOrder == BuildStatements

SpecOrder == InitOrder /\ [][NextOrder]_vars

\* no set of listed tables in which every table references another of the
\* set: the foreign-key graph among the listed tables has no cycle
Acyclic(tables) ==
    LET listed == {_safe_ident(tables[i].name) : i \in DOMAIN tables}
    IN  \A S \in SUBSET listed :
           S # {} => \E name \in S : Dependencies(tables, name) \cap S = {}

PositionOf(statements, name) ==
    CHOOSE i \in DOMAIN statements : statements[i] = CreateTable(name)

Reorderings(tables) ==
    {q \in [DOMAIN tables -> {tables[i] : i \in DOMAIN tables}] :
        {q[i] : i \in DOMAIN q} = {tables[i] : i \in DOMAIN tables}}

\* C18: for tables whose foreign-key graph (among the listed tables, self
\* references apart) has no cycle, the CREATE TABLE statement of each table
\* comes after that of every table it references, and the statements are
\* the same for every order in which the tables are listed.
C18_TopologicalOrder ==
    (ddl.stage = "built" /\ ddl.raised = "" /\ Acyclic(ddl.tables)) =>
        LET listed == {_safe_ident(ddl.tables[i].name) : i \in DOMAIN ddl.tables}
        IN  /\ \A name \in listed :
                  /\ \E i \in DOMAIN ddl.statements :
                        ddl.statements[i] = CreateTable(name)
                  /\ \A ref \in Dependencies(ddl.tables, name) :
                        PositionOf(ddl.statements, ref)
                           < PositionOf(ddl.statements, name)
            /\ \A q \in Reorderings(ddl.tables) :
                  build_schema_statements(q).statements = ddl.statements

C18_Witness ==
    /\ ddl.stage = "built" /\ ddl.raised = ""
    /\ Len(ddl.tables) = 3 /\ ddl.tables[1].name = "a"
    /\ Dependencies(ddl.tables, "a") = {"c"}
    /\ Dependencies(ddl.tables, "c") = {"b"}
    /\ PositionOf(ddl.statements, "b") = 1

\* no two tables of the list have the same name
UniquelyNamed(tables) ==
    \A i, j \in DOMAIN tables : i # j => tables[i].name # tables[j].name

\* the names are identifiers and differ after strip() and lower(), and every
\* ref_table is an identifier
WellNamed(tables) ==
    /\ \A i \in DOMAIN tables :
          /\ _IDENTIFIER_RE(_safe_ident(tables[i].name))
          /\ \A ref \in tables[i].foreign_keys : _IDENTIFIER_RE(_safe_ident(ref))
    /\ \A i, j \in DOMAIN tables :
          i # j => _safe_ident(tables[i].name) # _safe_ident(tables[j].name)

\* the tables of the CREATE TABLE statements, in the order emitted
CreatedTables(statements) ==
    LET creates == SelectSeq(statements, LAMBDA st : st.kind = "create_table")
    IN  [i \in DOMAIN creates |-> creates[i].table]

\* nothing raised, each table once, alphabetical when the graph has a cycle,
\* every CREATE TABLE before every CREATE INDEX
OrderedOnce ==
    LET listed == {_safe_ident(ddl.tables[i].name) : i \in DOMAIN ddl.tables}
        created == CreatedTables(ddl.statements)
    IN  /\ ddl.raised = ""
        /\ Len(created) = Len(ddl.tables)
        /\ {created[i] : i \in DOMAIN created} = listed
        /\ ~Acyclic(ddl.tables) => created = Sorted(listed)
        /\ \A i, k \in DOMAIN ddl.statements :
              (ddl.statements[i].kind = "create_table"
                  /\ ddl.statements[k].kind = "create_index") => i < k

\* C29 as stated: for every list of tables with distinct names, the graph
\* with a cycle included, the ordering does not fail and returns each table
\* once, alphabetically when there is a cycle, and every CREATE TABLE comes
\* before every CREATE INDEX.
C29_UniqueNamesOrdered ==
    (ddl.stage = "built" /\ UniquelyNamed(ddl.tables)) => OrderedOnce

\* C29: for every list of tables whose names are identifiers that differ
\* after normalisation (strip, lower case) and whose foreign keys name
\* identifiers as ref_table, the graph with a cycle included, the ordering
\* does not fail and returns each table once, in alphabetical order of the
\* normalised names when the graph has a cycle, and every CREATE TABLE
\* statement comes before every CREATE INDEX statement.
C29_ValidNamesOrdered ==
    (ddl.stage = "built" /\ WellNamed(ddl.tables)) => OrderedOnce

C29_Witness ==
    /\ ddl.stage = "built" /\ WellNamed(ddl.tables)
    /\ [i \in DOMAIN ddl.tables |-> ddl.tables[i].name] = <<"c", "B", "a">>
    /\ Dependencies(ddl.tables, "a") = {"b"}
    /\ Dependencies(ddl.tables, "b") = {"a"}
    /\ ddl.statements = <<CreateTable("a"), CreateTable("b"), CreateTable("c"),
                          CreateIndex("c", 1)>>

-----------------------------------------------------------------------------
(* schema_execution.py: execute_statements, one call.  The statements are  *)
(* numbered 1..count; the database decides at each of them whether it      *)
(* fails.  transaction.commit() and transaction.rollback() are recorded as  *)
(* events of the log.                                                      *)

MaxStatements == 4

Modes == {"dry_run", "apply", " Apply ", "migrate"}

\* mode.strip().lower()
NormalizeMode(mode) == IF mode = " Apply " THEN "apply" ELSE mode

AlwaysCommit(mode) == TRUE
NeverCommit(mode) == FALSE

\* should_commit = normalized_mode == "apply"
ShouldCommit(mode) == NormalizeMode(mode) = "apply"

Begin == [op |-> "begin", k |-> 0]
Executed(k) == [op |-> "execute", k |-> k]
StatementFailed(k) == [op |-> "execute_failed", k |-> k]
Commit == [op |-> "commit", k |-> 0]
Rollback == [op |-> "rollback", k |-> 0]

DdlResult(kind, executed, success, error) ==
    [kind |-> kind, executed |-> executed, success |-> success, error |-> error]

InitDdl ==
    /\ EnvOff /\ AgentOff /\ PropOff /\ plan = PlanOff
    /\ exec = PlanOff /\ probe = PlanOff
    /\ \E mode \in Modes, count \in 0..MaxStatements :
          ddl = [stage |-> "call", mode |-> mode, count |-> count, next |-> 1,
                 log |-> <<>>, result |-> DdlResult("none", FALSE, FALSE, "")]

\* lines 48-62: the mode is checked and the engine obtained
DdlGetEngine ==
    /\ ddl.stage = "call"
    /\ IF NormalizeMode(ddl.mode) \notin {"dry_run", "apply"}
       THEN ddl' = [ddl EXCEPT !.stage = "done",
                       !.result = DdlResult("raised", FALSE, FALSE,
                                            "mode must be one of: dry_run, apply.")]
       ELSE \/ ddl' = [ddl EXCEPT !.stage = "connect"]
            \/ ddl' = [ddl EXCEPT !.stage = "done",
                          !.result = DdlResult("returned", FALSE, FALSE, "RuntimeError")]
    /\ UNCHANGED <<envVars, clock, agentVars, propVars, plan, exec, probe>>

\* lines 67-68: engine.connect() and connection.begin()
DdlBegin ==
    /\ ddl.stage = "connect"
    /\ \/ ddl' = [ddl EXCEPT !.stage = "run", !.log = Append(@, Begin)]
       \/ ddl' = [ddl EXCEPT !.stage = "done",
                     !.result = DdlResult("returned", TRUE, FALSE, "OperationalError")]
    /\ UNCHANGED <<envVars, clock, agentVars, propVars, plan, exec, probe>>

\* lines 70-71 and 76-87: the next statement runs, or fails: the
\* transaction is rolled back and the error returned
DdlExecute ==
    /\ ddl.stage = "run" /\ ddl.next <= ddl.count
    /\ \/ ddl' = [ddl EXCEPT !.next = @ + 1, !.log = Append(@, Executed(ddl.next))]
       \/ ddl' = [ddl EXCEPT
                     !.stage = "done",
                     !.log = @ \o <<StatementFailed(ddl.next), Rollback>>,
                     !.result = DdlResult("returned", TRUE, FALSE, "ProgrammingError")]
    /\ UNCHANGED <<envVars, clock, agentVars, propVars, plan, exec, probe>>

\* lines 72-75 and 89-96: after the last statement
DdlEnd ==
    /\ ddl.stage = "run" /\ ddl.next > ddl.count
    /\ ddl' = [ddl EXCEPT
                  !.stage = "done",
                  !.log = Append(@, IF ShouldCommit(ddl.mode) THEN Commit ELSE Rollback),
                  !.result = DdlResult("returned", TRUE, TRUE, "None")]
    /\ UNCHANGED <<envVars, clock, agentVars, propVars, plan, exec, probe>>

NextDdl == DdlGetEngine \/ DdlBegin \/ DdlExecute \/ DdlEnd

SpecDdl == InitDdl /\ [][NextDdl]_vars

Events(op) == {i \in DOMAIN ddl.log : ddl.log[i].op = op}
AllExecuted == {ddl.log[i].k : i \in Events("execute")} = 1..ddl.count

-----------------------------------------------------------------------------
(* schema_execution.py: execute_schema_proposal, one call: the statements  *)
(* are built from the proposal and then handed to execute_statements.      *)

ProposalNameLists == {<<>>, <<"a">>, <<"bad id">>, <<"a", "b">>, <<"b", "B">>, <<"b", "a">>}
ProposalFkSets == {{}, {"b"}, {"bad id"}}

InitProposal ==
    /\ EnvOff /\ AgentOff /\ PropOff /\ plan = PlanOff
    /\ exec = PlanOff /\ probe = PlanOff
    /\ \E names \in ProposalNameLists, mode \in Modes :
         \E fks \in [DOMAIN names -> ProposalFkSets],
            bodies \in [DOMAIN names -> SchemaTableBodies],
            indexes \in 0..MaxIndexes :
            ddl = [stage |-> "proposal", mode |-> mode,
                   tables |-> [i \in DOMAIN names |->
                                 [SchemaTable(names[i], fks[i],
                                              IF i = 1 THEN indexes ELSE 0)
                                    EXCEPT !.body = bodies[i]]],
                   raised |-> "", statements |-> <<>>,
                   count |-> 0, next |-> 1, log |-> <<>>,
                   result |-> DdlResult("none", FALSE, FALSE, "")]

\* line 27: the statements are built, or the error of the build leaves the
\* call; line 28 then calls execute_statements
execute_schema_proposal ==
    /\ ddl.stage = "proposal"
    /\ LET built == build_schema_statements(ddl.tables)
       IN  IF built.raised # ""
           THEN ddl' = [ddl EXCEPT !.stage = "done", !.raised = built.raised,
                           !.result = DdlResult("raised", FALSE, FALSE, built.raised)]
           ELSE ddl' = [ddl EXCEPT !.stage = "call", !.statements = built.statements,
                           !.count = Len(built.statements)]
    /\ UNCHANGED <<envVars, clock, agentVars, propVars, plan, exec, probe>>

NextProposal == execute_schema_proposal \/ NextDdl

SpecProposal == InitProposal /\ [][NextProposal]_vars

\* a table, column, index or foreign key of the proposal is refused
Rejected(tables) ==
    \/ \E i \in DOMAIN tables :
          \/ ~_IDENTIFIER_RE(_safe_ident(tables[i].name))
          \/ \E k \in DOMAIN tables : k # i
                /\ _safe_ident(tables[k].name) = _safe_ident(tables[i].name)
          \/ \E ref \in tables[i].foreign_keys : ~_IDENTIFIER_RE(_safe_ident(ref))
          \/ tables[i].body \in {"column_ident", "missing_type"}
          \/ tables[i].body = "on_delete" /\ tables[i].foreign_keys # {}
          \/ tables[i].body \in {"index_ident", "index_no_columns"}
                /\ tables[i].indexes > 0

\* the engine was asked for, a connection opened or a statement run
DatabaseTouched ==
    \/ ddl.stage \in {"connect", "run"}
    \/ ddl.log # <<>>
    \/ ddl.result.kind = "returned"

\* C30: execute_schema_proposal builds and checks the whole statement list
\* before any database access: when a table, column, index or foreign key of
\* the proposal is refused (invalid identifier, missing type, invalid
\* on_delete, repeated table name) or the mode is neither dry_run nor apply,
\* the call ends with an error raised, no connection is opened and no
\* statement is executed; and whenever the database is reached the complete
\* statement list has been built.
C30_CheckedBeforeDatabase ==
    /\ (Rejected(ddl.tables) \/ NormalizeMode(ddl.mode) \notin {"dry_run", "apply"}) =>
          /\ ~DatabaseTouched
          /\ ddl.stage = "done" => ddl.result.kind = "raised"
          /\ ddl.stage \in {"proposal", "call", "done"}
          /\ Rejected(ddl.tables) => ddl.stage # "call"
    /\ DatabaseTouched =>
          /\ ddl.raised = ""
          /\ ddl.statements = build_schema_statements(ddl.tables).statements
          /\ ddl.count = Len(ddl.statements)

C30_Witness ==
    /\ ddl.stage = "done" /\ ddl.result.kind = "raised" /\ ddl.mode = "apply"
    /\ Len(ddl.tables) = 2 /\ ddl.tables[1].body = "index_no_columns"
    /\ ddl.tables[1].indexes = 1 /\ ddl.tables[2].body = "plain"
    /\ ~Rejected(<<ddl.tables[2]>>)
    /\ ddl.raised = "Index must have at least one column" /\ ddl.log = <<>>

(***************************************************************************)
(* validateProposedSchema on its own: a payload is given and validated.    *)
(***************************************************************************)

MaxSelected == 2
MaxProposedTables == 2

OptionIds == {"users_core", "datasets_core", "ghost_core"}

ProposableTables ==
    {Table("users", body) : body \in TableBodies}
        \cup {Table("datasets", "option"), Table("datasets", "repeated"),
              Table("widgets", "option")}

InitValidate ==
    /\ EnvOff /\ AgentOff /\ PropOff /\ plan = PlanOff
    /\ exec = PlanOff /\ ddl = PlanOff
    /\ \E ks \in {_TOP_LEVEL_KEYS, _TOP_LEVEL_KEYS \ {"rationale"}},
          selected_options \in SeqsUpTo(OptionIds, MaxSelected),
          tables \in SeqsUpTo(ProposableTables, MaxProposedTables) :
         probe = [stage |-> "given",
                  payload |-> Payload(ks, selected_options, tables),
                  ok |-> FALSE, schema |-> NoneVal]

Validate ==
    /\ probe.stage = "given"
    /\ LET validated == validateProposedSchema(probe.payload)
       IN  probe' = [probe EXCEPT !.stage = "validated", !.ok = validated.ok,
                                  !.schema = validated.schema]
    /\ UNCHANGED <<envVars, clock, agentVars, propVars, plan, exec, ddl>>

NextValidate == Validate

SpecValidate == InitValidate /\ [][NextValidate]_vars

Accepted == probe.stage = "validated" /\ probe.ok

FieldOf(items, key) == [i \in DOMAIN items |-> items[i][key]]
NoRepeats(s) == Cardinality(SeqToSet(s)) = Len(s)

\* the items of two lists correspond one to one by the key
OneToOne(proposed, expected, key) ==
    /\ NoRepeats(FieldOf(proposed, key))
    /\ SeqToSet(FieldOf(proposed, key)) = SeqToSet(FieldOf(expected, key))

WithDefault(column) == [column EXCEPT !.default = _normalize_default(@)]

\* C19: in every accepted payload the table names are those of the selected
\* options, and in each table the columns, the indexes and the foreign keys
\* correspond one to one with the catalog's by name, with no name twice,
\* and every attribute is the catalog's (a default up to surrounding blanks).
C19_ExactCorrespondence ==
    Accepted =>
        LET selected == probe.schema.selected_options
            tables == probe.schema.tables
        IN  /\ {tables[i].name : i \in DOMAIN tables}
                  = {OptionTables[selected[i]] : i \in DOMAIN selected}
            /\ \A i \in DOMAIN tables :
                  LET expected == CatalogTable(tables[i].name)
                  IN  /\ OneToOne(tables[i].columns, expected.columns, "name")
                      /\ OneToOne(tables[i].indexes, expected.indexes, "name")
                      /\ OneToOne(tables[i].foreign_keys, expected.foreign_keys, "column")
                      /\ {WithDefault(tables[i].columns[c]) : c \in DOMAIN tables[i].columns}
                            = {WithDefault(expected.columns[c]) :
                                  c \in DOMAIN expected.columns}
                      /\ SeqToSet(tables[i].indexes) = SeqToSet(expected.indexes)
                      /\ SeqToSet(tables[i].foreign_keys)
                            = SeqToSet(expected.foreign_keys)

(***************************************************************************)
(* _validate_agent_schema on candidates that differ from the ground truth  *)
(* in their tables, columns and joins only.                                *)
(***************************************************************************)

Reverse(s) == [i \in DOMAIN s |-> s[Len(s) + 1 - i]]

ColumnVariants ==
    {"exact", "reordered", "subset", "superset", "repeated", "repeated_subset",
     "not_a_list", "unhashable"}

\* the value of tables.<table_name>.columns in a candidate
CandidateColumns(table_name, variant) ==
    LET truth == TruthColumns[table_name]
    IN  CASE variant = "reordered" -> List(Reverse(truth))
          [] variant = "subset" -> List(ButLast(truth))
          [] variant = "superset" -> List(Append(truth, "hallucinated_col"))
          [] variant = "repeated" -> List(Append(truth, truth[1]))
          [] variant = "repeated_subset" -> List(ReplaceLast(truth, truth[1]))
          [] variant = "not_a_list" -> NoneVal
          [] variant = "unhashable" -> BadList(truth)
          [] OTHER -> List(truth)

TableKeyVariants == {"exact", "subset", "superset", "not_an_object"}

CandidateTables(keys, variants) ==
    LET names == CASE keys = "subset" -> TruthTableNames \ {"stops"}
                   [] keys = "superset" -> TruthTableNames \cup {"shapes"}
                   [] OTHER -> TruthTableNames
    IN  IF keys = "not_an_object" THEN List(<<>>)
        ELSE Tables([t \in names |->
                        IF t \in TruthTableNames
                        THEN CandidateColumns(t, variants[t])
                        ELSE List(<<"shape_id">>)])

JoinVariants ==
    {"exact", "reordered", "subset", "superset", "repeated", "retyped",
     "not_a_list", "not_an_object", "unhashable"}

CandidateJoins(variant) ==
    CASE variant = "reordered" -> List(Reverse(TruthJoins))
      [] variant = "subset" -> List(ButLast(TruthJoins))
      [] variant = "superset" ->
            List(Append(TruthJoins,
                        Join("routes", "route_id", "stops", "stop_id", "inner", "None")))
      [] variant = "repeated" -> List(Append(TruthJoins, TruthJoins[1]))
      [] variant = "retyped" -> List([TruthJoins EXCEPT ![1].jtype = "left"])
      [] variant = "not_a_list" -> NoneVal
      [] variant = "not_an_object" -> List(Append(TruthJoins, StrV("routes-trips")))
      [] variant = "unhashable" -> List([TruthJoins EXCEPT ![4].hashable = FALSE])
      [] OTHER -> List(TruthJoins)

\* the tables that vary over every variant; the others are exact or a superset
VariedTables == {"routes", "stops"}

TableVariantChoices ==
    {v \in [TruthTableNames -> ColumnVariants] :
        \A t \in TruthTableNames \ VariedTables : v[t] \in {"exact", "superset"}}

InitTruth ==
    /\ EnvOff /\ AgentOff /\ PropOff /\ plan = PlanOff
    /\ exec = PlanOff /\ ddl = PlanOff
    /\ \E keys \in TableKeyVariants, variants \in TableVariantChoices,
          joins \in JoinVariants :
         probe = [stage |-> "candidate", keys |-> keys, variants |-> variants,
                  joins |-> joins, raised |-> FALSE, errors |-> <<>>]

CandidateOf(p) ==
    [_minimal_fallback_agent_schema(DefaultMaxRows) EXCEPT
        !.tables = CandidateTables(p.keys, p.variants),
        !.joins = CandidateJoins(p.joins)]

ValidateCandidate ==
    /\ probe.stage = "candidate"
    /\ LET checked == _validate_agent_schema(CandidateOf(probe), maxRows, FALSE)
       IN  probe' = [probe EXCEPT !.stage = "checked", !.raised = checked.raised,
                                  !.errors = checked.errors]
    /\ UNCHANGED <<envVars, clock, agentVars, propVars, plan, exec, ddl>>

NextTruth == ValidateCandidate

SpecTruth == InitTruth /\ [][NextTruth]_vars

TruthMessages ==
    {"tables must be an object", "tables keys must match SOURCE_OF_TRUTH_SCHEMA tables",
     "tables.columns must be an array", "tables.columns contains duplicates",
     "tables.columns must match SOURCE_OF_TRUTH_SCHEMA", "joins must be an array",
     "Each join must be an object", "joins must exactly match allowed GTFS joins"}

\* the validator returned and no error is about tables, columns or joins
NoTruthError ==
    /\ ~probe.raised
    /\ \A i \in DOMAIN probe.errors : probe.errors[i].msg \notin TruthMessages

SameTableNames(agent_schema) ==
    IsDict(agent_schema.tables) /\ agent_schema.tables.keys = TruthTableNames

\* the columns of a table are a list of hashable items with the truth's set
SameColumnSet(agent_schema, table_name) ==
    LET columns == ColumnsOf(agent_schema.tables, table_name)
    IN  /\ IsList(columns) /\ columns.hashable
        /\ SeqToSet(columns.items) = SeqToSet(TruthColumns[table_name])

SameJoinSet(agent_schema) ==
    LET joins == agent_schema.joins
    IN  /\ IsList(joins)
        /\ \A i \in DOMAIN joins.items : IsDict(joins.items[i]) /\ joins.items[i].hashable
        /\ {_canonical_join(joins.items[i]) : i \in DOMAIN joins.items}
              = {_canonical_join(TruthJoins[i]) : i \in DOMAIN TruthJoins}

SameSets(agent_schema) ==
    /\ SameTableNames(agent_schema)
    /\ \A t \in TruthTableNames : SameColumnSet(agent_schema, t)
    /\ SameJoinSet(agent_schema)

NoRepeatedColumn(agent_schema) ==
    \A t \in TruthTableNames :
        NoRepeats(ColumnsOf(agent_schema.tables, t).items)

\* C20 as stated: the validator reports no error about tables, columns or
\* joins if and only if the candidate's table names, each table's column set
\* and the join set are those of the ground truth.
C20_ExactSetsIff ==
    probe.stage = "checked" => (NoTruthError <=> SameSets(CandidateOf(probe)))

\* C20: the validator returns without an error about tables, columns or
\* joins if and only if the candidate's table names, each table's column set
\* and the join set are those of the ground truth and no table lists a
\* column twice.
C20_ExactSetsNoRepeatsIff ==
    probe.stage = "checked" =>
        (NoTruthError <=>
            (SameSets(CandidateOf(probe)) /\ NoRepeatedColumn(CandidateOf(probe))))

C20_Witness ==
    /\ probe.stage = "checked" /\ NoTruthError
    /\ probe.keys = "exact" /\ probe.joins = "reordered"
    /\ probe.variants["routes"] = "reordered"
    /\ CandidateOf(probe).tables # TruthTables

(***************************************************************************)
(* _call_gemini_json: the attempts of one generator call.  probe holds the *)
(* call: the outcomes of its attempts in order, the sleeps between them,   *)
(* and how it ended.                                                       *)
(***************************************************************************)

MaxRetryCount == 2

\* GEMINI_RETRY_COUNT: unset (or blank, or no integer), or an integer
RetryCountEnv ==
    {[set |-> FALSE, v |-> 0]} \cup {[set |-> TRUE, v |-> n] : n \in (0 - 1)..MaxRetryCount}

\* max(0, _read_int_env("GEMINI_RETRY_COUNT", 1))
RetryCount(env) == Max2(0, IF env.set THEN env.v ELSE 1)

StatusCodes == {401, 408, 429, 500, 501, 503}

\* the codes after which the loop goes on
RetriedCodes == {408, 429, 500, 502, 503, 504}

Bodies == {"answer", "not_json", "no_candidates", "empty_text"}

\* what urlopen and response.read() may do in one attempt; "other" is an
\* exception none of the except clauses names
Outcomes ==
    {[kind |-> "ok", code |-> 200, body |-> b] : b \in Bodies}
        \cup {[kind |-> "http", code |-> c, body |-> ""] : c \in StatusCodes}
        \cup {[kind |-> k, code |-> 0, body |-> ""] : k \in {"url_error", "timeout", "other"}}

CallReturned(text) == [kind |-> "returned", exc |-> "", text |-> text]
CallRaised(exc, text) == [kind |-> "raised", exc |-> exc, text |-> text]
CallPending == [kind |-> "none", exc |-> "", text |-> ""]

InitCall ==
    /\ EnvOff /\ AgentOff /\ PropOff /\ plan = PlanOff
    /\ exec = PlanOff /\ ddl = PlanOff
    /\ \E api_key \in {"", "key"}, env \in RetryCountEnv :
         probe = [stage |-> "idle", api_key |-> api_key, env |-> env, attempts |-> 0,
                  attempt |-> 0, log |-> <<>>, sleeps |-> <<>>, raw |-> "",
                  result |-> CallPending]

\* lines 741-762: the key, the retry count, the request
CallStart ==
    /\ probe.stage = "idle"
    /\ IF probe.api_key = ""
       THEN probe' = [probe EXCEPT
                        !.stage = "done",
                        !.result = CallRaised("AgentSchemaError", "GEMINI_API_KEY is required")]
       ELSE probe' = [probe EXCEPT !.stage = "attempt", !.attempt = 1,
                                   !.attempts = RetryCount(probe.env) + 1]
    /\ UNCHANGED <<envVars, clock, agentVars, propVars, plan, exec, ddl>>

\* a loop that goes on after every failure while attempts remain
ContinuesAlways(outcome, attempt, attempts) == attempt < attempts

\* whether the except clause of the outcome sleeps and continues
Continues(outcome, attempt, attempts) ==
    /\ attempt < attempts
    /\ \/ outcome.kind = "http" /\ outcome.code \in RetriedCodes
       \/ outcome.kind \in {"url_error", "timeout"}

\* one pass of the loop of lines 765-792
Attempt ==
    /\ probe.stage = "attempt"
    /\ \E outcome \in Outcomes :
         LET logged == [probe EXCEPT !.log = Append(@, outcome)]
         IN  CASE outcome.kind = "ok" ->
                    probe' = [logged EXCEPT !.stage = "parse", !.raw = outcome.body]
               [] outcome.kind = "other" ->
                    probe' = [logged EXCEPT !.stage = "done",
                                            !.result = CallRaised("Exception", "")]
               [] Continues(outcome, probe.attempt, probe.attempts) ->
                    probe' = [logged EXCEPT !.attempt = @ + 1,
                                            !.sleeps = Append(@, probe.attempt)]
               [] OTHER ->
                    probe' = [logged EXCEPT
                                !.stage = "done",
                                !.result = CallRaised("AgentSchemaError", outcome.kind)]
    /\ UNCHANGED <<envVars, clock, agentVars, propVars, plan, exec, ddl>>

\* lines 797-810: the text of the first candidate
ParseResponse ==
    /\ probe.stage = "parse"
    /\ probe' = [probe EXCEPT
                   !.stage = "done",
                   !.result = IF probe.raw = "answer" THEN CallReturned(probe.raw)
                              ELSE CallRaised("AgentSchemaError", probe.raw)]
    /\ UNCHANGED <<envVars, clock, agentVars, propVars, plan, exec, ddl>>

NextCall == CallStart \/ Attempt \/ ParseResponse

SpecCall == InitCall /\ [][NextCall]_vars

\* the call is one synchronous thread: it takes its next step
SpecCallFair == SpecCall /\ WF_vars(NextCall)

CallDone == probe.stage = "done"

Failure(outcome) == outcome.kind # "ok"

\* the transient classes as stated: timeout, HTTP 429 or 5xx
Transient(outcome) ==
    \/ outcome.kind = "timeout"
    \/ outcome.kind = "http" /\ (outcome.code = 429 \/ outcome.code \in 500..599)

\* the classes after which another attempt follows: a timeout, a network
\* error, HTTP 408, 429, 500, 502, 503 or 504
Retryable(outcome) ==
    \/ outcome.kind \in {"timeout", "url_error"}
    \/ outcome.kind = "http" /\ outcome.code \in {408, 429, 500, 502, 503, 504}

\* the shape of the attempts, given the failures that allow a further one
AttemptsShape(MayRetry(_)) ==
    LET n == Len(probe.log)
    IN  /\ n <= RetryCount(probe.env) + 1
        /\ \A i \in 1..(n - 1) : Failure(probe.log[i]) /\ MayRetry(probe.log[i])
        /\ (CallDone /\ n > 0 /\ Failure(probe.log[n])) =>
              /\ probe.result.kind = "raised"
              /\ (~MayRetry(probe.log[n]) \/ n = RetryCount(probe.env) + 1)
              /\ (MayRetry(probe.log[n]) /\ n = RetryCount(probe.env) + 1)
                    => probe.result.exc = "AgentSchemaError"
        /\ (CallDone /\ probe.result.kind = "returned") =>
              n > 0 /\ probe.log[n].kind = "ok"

C21_TransientOnly == AttemptsShape(Transient)

\* C21 as stated: at most retry_count + 1 attempts, a further attempt only
\* after a timeout, HTTP 429 or 5xx, and the call ends.
C21_TransientRetries == []C21_TransientOnly /\ <>CallDone

C21_RetryableOnly == AttemptsShape(Retryable)

\* C21: the call ends after at most retry_count + 1 attempts; it stops at
\* the first successful attempt; a further attempt follows only a timeout,
\* a network error or HTTP 408, 429, 500, 502, 503, 504 while attempts
\* remain; any other failure ends the call at once; and the call raises
\* AgentSchemaError when the last attempt allowed fails in such a way.
C21_BoundedRetries == []C21_RetryableOnly /\ <>CallDone

C21_Witness ==
    /\ CallDone /\ probe.env = [set |-> TRUE, v |-> 1] /\ Len(probe.log) = 2
    /\ probe.log[1].kind = "timeout" /\ probe.log[2].kind = "ok"
    /\ probe.result = CallReturned("answer")

====
